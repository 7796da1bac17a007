---------------------------- MODULE TasksProofs ----------------------------
(* Theorems about Tasks and ProjectViews, for any sets of users, projects,   *)
(* teams, wallets and requests in flight, any number of tasks and any page   *)
(* size: first the tables and the pages, then finite sets and sums over      *)
(* them, and on these what the views and the summary answer.                 *)
EXTENDS ProjectViews, FiniteSetTheorems, WellFoundedInduction, TLAPS

(* What a step of the ledger can do to the tables of projects.               *)
LEMMA LedgerStep ==
  ASSUME TypeOK, ProjectStep
  PROVE  \E p \in Projects, u \in Users :
           \/ /\ owner[p] = None
              /\ owner' = [owner EXCEPT ![p] = u]
              /\ members' = [members EXCEPT ![p] = {u}]
              /\ chat' = [chat EXCEPT ![p] = {u}]
              /\ UNCHANGED invited
           \/ /\ owner[p] # None
              /\ invited' = [invited EXCEPT ![p] = @ \cup {u}]
              /\ UNCHANGED <<owner, members, chat>>
           \/ /\ u \in invited[p] \ members[p]
              /\ members' = [members EXCEPT ![p] = @ \cup {u}]
              /\ chat' = [chat EXCEPT ![p] = @ \cup {u}]
              /\ UNCHANGED <<owner, invited>>
BY DEF ProjectStep, Ledger!Next, Ledger!Found, Ledger!Invite, Ledger!Join

LEMMA LedgerTypes ==
  ASSUME TypeOK, ProjectStep
  PROVE  /\ owner' \in [Projects -> Users \cup {None}]
         /\ invited' \in [Projects -> SUBSET Users]
         /\ members' \in [Projects -> SUBSET Users]
         /\ chat' \in [Projects -> SUBSET Users]
         /\ UNCHANGED <<teamOf, stamps, task, delivered, handedIn, req>>
<1>1. PICK p \in Projects, u \in Users :
           \/ /\ owner[p] = None
              /\ owner' = [owner EXCEPT ![p] = u]
              /\ members' = [members EXCEPT ![p] = {u}]
              /\ chat' = [chat EXCEPT ![p] = {u}]
              /\ UNCHANGED invited
           \/ /\ owner[p] # None
              /\ invited' = [invited EXCEPT ![p] = @ \cup {u}]
              /\ UNCHANGED <<owner, members, chat>>
           \/ /\ u \in invited[p] \ members[p]
              /\ members' = [members EXCEPT ![p] = @ \cup {u}]
              /\ chat' = [chat EXCEPT ![p] = @ \cup {u}]
              /\ UNCHANGED <<owner, invited>>
  BY LedgerStep
<1> QED
  BY <1>1 DEF ProjectStep, TypeOK, taskTables

LEMMA RequestFields ==
  ASSUME TypeOK, NEW r \in Requests
  PROVE  /\ At(r, "create") => req[r].stamp \in TaskIds /\ req[r].row \in TaskRow
         /\ At(r, "submit") => req[r].task \in TaskIds /\ req[r].by \in Participation
         /\ At(r, "list") \/ At(r, "count") =>
              /\ req[r].query \in Query /\ req[r].page \in Nat
              /\ req[r].wanted \in SUBSET TaskIds /\ req[r].got \in SUBSET TaskIds
BY DEF TypeOK, Request, Reader, At

LEMMA ReaderType ==
  /\ \A q \in Query, n \in Nat, W, G \in SUBSET TaskIds :
       /\ Reading("list", q, n, W, G) \in Request
       /\ Shown(q, n, W, G) \in Request
BY DEF Reading, Shown, Request, Reader, Page, Matching

LEMMA TypeStep ==
  ASSUME TypeOK, [Next]_vars
  PROVE  TypeOK'
<1> USE DEF TypeOK, Begin, At, End, projectTables, taskTables
<1>1. ASSUME ProjectStep
      PROVE  TypeOK'
  BY <1>1, LedgerTypes
<1>2. ASSUME NEW t \in TeamIds, NEW p \in Projects, CreateTeam(t, p)
      PROVE  TypeOK'
  BY <1>2 DEF CreateTeam
<1>3. ASSUME NEW r \in Requests, NEW u \in Users, NEW row \in Drafts, CreateTask(r, u, row)
      PROVE  TypeOK'
  <2>1. stamps + 1 \in TaskIds /\ stamps' \in 0..MaxTasks
    BY <1>3, BoundsAssumption DEF CreateTask, TaskIds
  <2>2. [at |-> "create", stamp |-> stamps + 1, row |-> row] \in Request
    BY <2>1, InputsAssumption DEF Request
  <2> QED
    BY <1>3, <2>1, <2>2 DEF CreateTask
<1>4. ASSUME NEW r \in Requests, NEW u \in Users, NEW k \in TaskIds,
             NEW a \in Participation, SubmitTask(r, u, k, a)
      PROVE  TypeOK'
  <2>1. [at |-> "submit", task |-> k, by |-> a] \in Request
    BY DEF Request
  <2> QED
    BY <1>4, <2>1 DEF SubmitTask
<1>5. ASSUME NEW r \in Requests, NEW q \in Listings, OpenListing(r, q)
      PROVE  TypeOK'
  <2>1. Shown(q, 1, Matching(q), {}) \in Request
    BY ReaderType, InputsAssumption DEF Matching
  <2> QED
    BY <1>5, <2>1 DEF OpenListing
<1>6. ASSUME NEW r \in Requests, CreateTaskCommit(r)
      PROVE  TypeOK'
  <2>1. req[r].stamp \in TaskIds /\ req[r].row \in TaskRow
    BY <1>6, RequestFields DEF CreateTaskCommit
  <2> QED
    BY <1>6, <2>1 DEF CreateTaskCommit
<1>7. ASSUME NEW r \in Requests, SubmitTaskCommit(r)
      PROVE  TypeOK'
  <2>1. req[r].task \in TaskIds /\ req[r].by \in Participation
    BY <1>7, RequestFields DEF SubmitTaskCommit
  <2> QED
    BY <1>7, <2>1 DEF SubmitTaskCommit, Deliver
<1>8. ASSUME NEW r \in Requests, TurnPage(r)
      PROVE  TypeOK'
  <2>1. /\ req[r].query \in Query /\ req[r].page \in Nat
        /\ req[r].wanted \in SUBSET TaskIds /\ req[r].got \in SUBSET TaskIds
    BY <1>8, RequestFields DEF TurnPage
  <2>2. Shown(req[r].query, req[r].page, req[r].wanted, req[r].got) \in Request
    BY ReaderType, <2>1
  <2> QED
    BY <1>8, <2>2 DEF TurnPage
<1>9. ASSUME NEW r \in Requests, CountPages(r)
       PROVE  TypeOK'
  <2> DEFINE q == Reading("list", req[r].query, req[r].page + 1, req[r].wanted, req[r].got)
  <2>1. /\ req[r].query \in Query /\ req[r].page + 1 \in Nat
        /\ req[r].wanted \in SUBSET TaskIds /\ req[r].got \in SUBSET TaskIds
    BY <1>9, RequestFields DEF CountPages
  <2>2. q \in Request
    BY ReaderType, <2>1
  <2>3. req' = [req EXCEPT ![r] = None] \/ req' = [req EXCEPT ![r] = q]
    BY <1>9 DEF CountPages
  <2> QED
    BY <1>9, <2>2, <2>3 DEF CountPages
<1>10. ASSUME NEW r \in Requests, Fail(r)
       PROVE  TypeOK'
  BY <1>10 DEF Fail
<1>11. CASE UNCHANGED vars
  BY <1>11 DEF vars
<1> QED
  BY <1>1, <1>2, <1>3, <1>4, <1>5, <1>6, <1>7, <1>8, <1>9, <1>10, <1>11
     DEF Next, Arrive, Advance

LEMMA TypeInit == Init => TypeOK
BY BoundsAssumption DEF Init, Ledger!Init, TypeOK

(* Every row, every request in flight and every reader keeps its type.       *)
THEOREM TypeCorrect == Spec => []TypeOK
<1> QED
  BY TypeInit, TypeStep, PTL DEF Spec

-----------------------------------------------------------------------------
LEMMA InductiveInit == Init => Inductive
BY NoneAssumption DEF Init, Ledger!Init, Inductive, OwnersAreMembers, AssigneesParticipate,
   RequestsFit, StampsUnique, SubmissionsFit, At

(* Nobody leaves a project, and a project with members has an owner.         *)
LEMMA MembersStay ==
  ASSUME TypeOK, OwnersAreMembers, ProjectStep
  PROVE  /\ OwnersAreMembers'
         /\ \A p \in Projects : members[p] \subseteq members'[p]
<1>1. PICK p \in Projects, u \in Users :
           \/ /\ owner[p] = None
              /\ owner' = [owner EXCEPT ![p] = u]
              /\ members' = [members EXCEPT ![p] = {u}]
              /\ chat' = [chat EXCEPT ![p] = {u}]
              /\ UNCHANGED invited
           \/ /\ owner[p] # None
              /\ invited' = [invited EXCEPT ![p] = @ \cup {u}]
              /\ UNCHANGED <<owner, members, chat>>
           \/ /\ u \in invited[p] \ members[p]
              /\ members' = [members EXCEPT ![p] = @ \cup {u}]
              /\ chat' = [chat EXCEPT ![p] = @ \cup {u}]
              /\ UNCHANGED <<owner, invited>>
  BY LedgerStep
<1>2. u # None
  BY NoneAssumption
<1>3. CASE /\ owner[p] = None
           /\ owner' = [owner EXCEPT ![p] = u]
           /\ members' = [members EXCEPT ![p] = {u}]
           /\ UNCHANGED invited
  BY <1>2, <1>3 DEF OwnersAreMembers, TypeOK
<1>4. CASE /\ owner[p] # None
           /\ invited' = [invited EXCEPT ![p] = @ \cup {u}]
           /\ UNCHANGED <<owner, members>>
  BY <1>4 DEF OwnersAreMembers, TypeOK
<1>5. CASE /\ u \in invited[p] \ members[p]
           /\ members' = [members EXCEPT ![p] = @ \cup {u}]
           /\ UNCHANGED <<owner, invited>>
  BY <1>5 DEF OwnersAreMembers, TypeOK
<1> QED
  BY <1>1, <1>3, <1>4, <1>5

LEMMA InductiveStep ==
  ASSUME TypeOK, Inductive, [Next]_vars
  PROVE  Inductive'
<1> USE DEF TypeOK, Begin, At, End, projectTables, taskTables
<1>1. ASSUME ProjectStep
      PROVE  Inductive'
  <2>1. OwnersAreMembers' /\ \A p \in Projects : members[p] \subseteq members'[p]
    BY <1>1, MembersStay DEF Inductive
  <2>2. UNCHANGED <<teamOf, stamps, task, delivered, handedIn, req>>
    BY <1>1, LedgerTypes
  <2>3. AssigneesParticipate'
    BY <2>1, <2>2 DEF Inductive, AssigneesParticipate, TaskRow, Participation
  <2>4. \A r \in Requests : At(r, "create") => RowFits(req[r].row)'
    BY <2>1, <2>2, RequestFields DEF Inductive, RequestsFit, RowFits, TaskRow, Participation
  <2>5. RequestsFit'
    BY <2>2, <2>4 DEF Inductive, RequestsFit, Submittable
  <2>6. StampsUnique' /\ SubmissionsFit'
    BY <2>2 DEF Inductive, StampsUnique, SubmissionsFit
  <2> QED
    BY <2>1, <2>3, <2>5, <2>6 DEF Inductive
<1>2. ASSUME NEW t \in TeamIds, NEW p \in Projects, CreateTeam(t, p)
      PROVE  Inductive'
  <2>1. UNCHANGED <<owner, invited, members, stamps, task, delivered, handedIn, req>>
    BY <1>2 DEF CreateTeam
  <2>2. \A s \in TeamIds : teamOf[s] \in Projects => teamOf'[s] = teamOf[s]
    BY <1>2, NoneAssumption DEF CreateTeam
  <2>3. AssigneesParticipate'
    BY <2>1, <2>2 DEF Inductive, AssigneesParticipate, TaskRow
  <2>4. \A r \in Requests : At(r, "create") => RowFits(req[r].row)'
    BY <2>1, <2>2, RequestFields DEF Inductive, RequestsFit, RowFits, TaskRow
  <2>5. RequestsFit'
    BY <2>1, <2>4 DEF Inductive, RequestsFit, Submittable
  <2> QED
    BY <2>1, <2>3, <2>5 DEF Inductive, OwnersAreMembers, StampsUnique, SubmissionsFit
<1>3. ASSUME NEW r \in Requests, NEW u \in Users, NEW row \in Drafts, CreateTask(r, u, row)
      PROVE  Inductive'
  <2> DEFINE q == [at |-> "create", stamp |-> stamps + 1, row |-> row]
  <2>1. /\ UNCHANGED <<owner, invited, members, teamOf, task, delivered, handedIn>>
        /\ stamps' = stamps + 1
        /\ req[r] = None
        /\ req' = [req EXCEPT ![r] = q]
        /\ AssigneesFound(row.project, row.assigned) /\ TeamsFound(row.project, row.teams)
        /\ stamps + 1 \in TaskIds
    BY <1>3, BoundsAssumption DEF CreateTask, TaskIds
  <2>2. q.at = "create" /\ q.stamp = stamps + 1 /\ q.row = row /\ q # None
    <3>1. q \in Request
      BY <2>1, InputsAssumption DEF Request
    <3> QED
      BY <3>1, NoneIsNoRecord
  <2> HIDE DEF q
  <2>3. req'[r] = q /\ \A s \in Requests : s # r => req'[s] = req[s]
    BY <2>1
  <2>4. RowFits(row)'
    BY <2>1, InputsAssumption DEF RowFits, AssigneesFound, TeamsFound, TaskRow
  <2>5. task[stamps + 1] = None
    BY <2>1 DEF Inductive, StampsUnique
  <2>6. RequestsFit'
    <3>1. ASSUME NEW s \in Requests, At(s, "create")'
          PROVE  RowFits(req[s].row)' /\ req'[s].stamp <= stamps' /\ task'[req'[s].stamp] = None
      <4>1. CASE s = r
        BY <2>1, <2>2, <2>3, <2>4, <2>5, <4>1 DEF RowFits
      <4>2. CASE s # r
        BY <2>1, <2>3, <3>1, <4>2, RequestFields DEF Inductive, RequestsFit, RowFits, TaskIds
      <4> QED
        BY <4>1, <4>2
    <3>2. ASSUME NEW s \in Requests, At(s, "submit")'
          PROVE  Submittable(req[s].task, req[s].by)'
      BY <2>1, <2>2, <2>3, <3>2 DEF Inductive, RequestsFit, Submittable
    <3> QED
      BY <3>1, <3>2 DEF RequestsFit
  <2>7. StampsUnique'
    <3>1. \A s \in Requests : At(s, "create") => req[s].stamp \in TaskIds /\ req[s].stamp <= stamps
      BY RequestFields DEF Inductive, RequestsFit
    <3> QED
      BY <2>1, <2>2, <2>3, <3>1 DEF Inductive, StampsUnique, TaskIds
  <2> QED
    BY <2>1, <2>6, <2>7 DEF Inductive, OwnersAreMembers, AssigneesParticipate, SubmissionsFit
<1>4. ASSUME NEW r \in Requests, NEW u \in Users, NEW k \in TaskIds,
             NEW a \in Participation, SubmitTask(r, u, k, a)
      PROVE  Inductive'
  <2>1. /\ UNCHANGED <<owner, invited, members, teamOf, stamps, task, delivered, handedIn>>
        /\ req' = [req EXCEPT ![r] = [at |-> "submit", task |-> k, by |-> a]]
        /\ Submittable(k, a)
    BY <1>4 DEF SubmitTask
  <2>2. RequestsFit'
    BY <2>1 DEF Inductive, RequestsFit, RowFits, Submittable
  <2>3. StampsUnique'
    BY <2>1 DEF Inductive, StampsUnique
  <2> QED
    BY <2>1, <2>2, <2>3 DEF Inductive, OwnersAreMembers, AssigneesParticipate, SubmissionsFit
<1>5. ASSUME NEW r \in Requests, CreateTaskCommit(r)
      PROVE  Inductive'
  <2> DEFINE k == req[r].stamp
             row == req[r].row
  <2>1. /\ k \in TaskIds /\ row \in TaskRow /\ k <= stamps
        /\ task[k] = None /\ RowFits(row)
    BY <1>5, RequestFields DEF CreateTaskCommit, Inductive, RequestsFit
  <2>2. /\ task' = [task EXCEPT ![k] = row]
        /\ req' = [req EXCEPT ![r] = None]
        /\ UNCHANGED <<owner, invited, members, teamOf, stamps, delivered, handedIn>>
        /\ At(r, "create")
    BY <1>5 DEF CreateTaskCommit
  <2>3. \A s \in Requests : s # r /\ At(s, "create") => req[s].stamp \in TaskIds \ {k}
    BY <2>2, RequestFields DEF Inductive, StampsUnique
  <2> HIDE DEF k, row
  <2>4. AssigneesParticipate'
    BY <2>1, <2>2 DEF Inductive, AssigneesParticipate, RowFits
  <2>5. task'[k] = row /\ \A j \in TaskIds : j # k => task'[j] = task[j]
    BY <2>1, <2>2
  <2>6. req'[r] = None /\ \A s \in Requests : s # r => req'[s] = req[s]
    BY <2>2
  <2>7. RequestsFit'
    <3>1. ASSUME NEW s \in Requests, At(s, "create")'
          PROVE  RowFits(req[s].row)' /\ req'[s].stamp <= stamps' /\ task'[req'[s].stamp] = None
      <4>1. s # r /\ At(s, "create")
        BY <2>6, <3>1
      <4> QED
        BY <2>2, <2>3, <2>5, <2>6, <4>1 DEF Inductive, RequestsFit, RowFits
    <3>2. ASSUME NEW s \in Requests, At(s, "submit")'
          PROVE  Submittable(req[s].task, req[s].by)'
      <4>1. s # r /\ At(s, "submit")
        BY <2>6, <3>2
      <4>2. req[s].task \in TaskIds /\ Submittable(req[s].task, req[s].by)
        BY <4>1, RequestFields DEF Inductive, RequestsFit
      <4> QED
        BY <2>1, <2>5, <2>6, <4>1, <4>2 DEF Submittable
    <3> QED
      BY <3>1, <3>2 DEF RequestsFit
  <2>8. StampsUnique'
    BY <2>1, <2>2, <2>5, <2>6 DEF Inductive, StampsUnique, TaskIds
  <2>9. SubmissionsFit'
    BY <2>1, <2>2, <2>5 DEF Inductive, SubmissionsFit
  <2> QED
    BY <2>2, <2>4, <2>7, <2>8, <2>9 DEF Inductive, OwnersAreMembers
<1>6. ASSUME NEW r \in Requests, SubmitTaskCommit(r)
      PROVE  Inductive'
  <2> DEFINE k == req[r].task
             a == req[r].by
  <2>1. k \in TaskIds /\ a \in Participation /\ Submittable(k, a)
    BY <1>6, RequestFields DEF SubmitTaskCommit, Inductive, RequestsFit
  <2>2. /\ Deliver(k, a)
        /\ req' = [req EXCEPT ![r] = None]
        /\ UNCHANGED <<owner, invited, members, teamOf, stamps, task>>
    BY <1>6 DEF SubmitTaskCommit
  <2> HIDE DEF k, a
  <2>3. RequestsFit' /\ StampsUnique'
    BY <2>2 DEF Inductive, RequestsFit, RowFits, Submittable, StampsUnique
  <2>4. SubmissionsFit'
    BY <2>1, <2>2 DEF Deliver, Submittable, Inductive, SubmissionsFit
  <2> QED
    BY <2>2, <2>3, <2>4 DEF Inductive, OwnersAreMembers, AssigneesParticipate
<1>7. ASSUME UNCHANGED <<projectTables, taskTables>>,
             NEW r \in Requests, NEW q,
             q = None \/ q.at \in {"list", "count"},
             req' = [req EXCEPT ![r] = q]
      PROVE  Inductive'
  <2>1. \A s \in Requests :
          /\ At(s, "create")' => s # r /\ At(s, "create") /\ req'[s] = req[s]
          /\ At(s, "submit")' => s # r /\ At(s, "submit") /\ req'[s] = req[s]
    BY <1>7
  <2>2. RequestsFit' /\ StampsUnique'
    BY <1>7, <2>1 DEF Inductive, RequestsFit, RowFits, Submittable, StampsUnique
  <2> QED
    BY <1>7, <2>2 DEF Inductive, OwnersAreMembers, AssigneesParticipate, SubmissionsFit
<1>8. ASSUME NEW r \in Requests, NEW q \in Listings, OpenListing(r, q)
      PROVE  Inductive'
  <2>1. Shown(q, 1, Matching(q), {}).at = "count"
    BY DEF Shown, Reading
  <2> QED
    BY <1>7, <1>8, <2>1 DEF OpenListing
<1>9. ASSUME NEW r \in Requests, TurnPage(r)
      PROVE  Inductive'
  <2> DEFINE q == Shown(req[r].query, req[r].page, req[r].wanted, req[r].got)
  <2>1. q.at = "count"
    BY DEF Shown, Reading
  <2>2. req' = [req EXCEPT ![r] = q] /\ UNCHANGED <<projectTables, taskTables>>
    BY <1>9 DEF TurnPage
  <2> HIDE DEF q
  <2> QED
    BY <1>7, <2>1, <2>2
<1>10. ASSUME NEW r \in Requests, CountPages(r)
       PROVE  Inductive'
  <2> DEFINE q == Reading("list", req[r].query, req[r].page + 1, req[r].wanted, req[r].got)
  <2>1. q.at = "list"
    BY DEF Reading
  <2>2. /\ UNCHANGED <<projectTables, taskTables>>
        /\ req' = [req EXCEPT ![r] = None] \/ req' = [req EXCEPT ![r] = q]
    BY <1>10 DEF CountPages
  <2> HIDE DEF q
  <2> QED
    BY <1>7, <2>1, <2>2
<1>11. ASSUME NEW r \in Requests, Fail(r)
       PROVE  Inductive'
  BY <1>7, <1>11 DEF Fail
<1>12. CASE UNCHANGED vars
  BY <1>12 DEF vars, Inductive, OwnersAreMembers, AssigneesParticipate, RequestsFit, RowFits,
     Submittable, StampsUnique, SubmissionsFit
<1> QED
  BY <1>1, <1>2, <1>3, <1>4, <1>5, <1>6, <1>8, <1>9, <1>10, <1>11, <1>12
     DEF Next, Arrive, Advance

(* Owners are members, tasks and drafts of tasks stay inside their project,  *)
(* stamps are told apart and submissions fit their tasks.                    *)
THEOREM TasksConsistent == Spec => []Inductive
<1> QED
  BY TypeInit, TypeStep, InductiveInit, InductiveStep, PTL DEF Spec

(* A task and its assignments never cross a project's border.                *)
THEOREM AssigneesAlwaysParticipate == Spec => []AssigneesParticipate
<1>1. Inductive => AssigneesParticipate
  BY DEF Inductive
<1> QED
  BY <1>1, TasksConsistent, PTL

(* Submissions are of assignees, on the table of the task's type, and only   *)
(* for tasks to do.                                                          *)
THEOREM SubmissionsAlwaysFit == Spec => []SubmissionsFit
<1>1. Inductive => SubmissionsFit
  BY DEF Inductive
<1> QED
  BY <1>1, TasksConsistent, PTL

-----------------------------------------------------------------------------
(* The pages.  Everything a reader counts is a set of tasks, hence finite.   *)
LEMMA TasksFinite ==
  \A S \in SUBSET TaskIds : IsFiniteSet(S) /\ Cardinality(S) \in Nat
<1>1. IsFiniteSet(TaskIds)
  BY FS_Interval, BoundsAssumption DEF TaskIds
<1> QED
  BY <1>1, FS_Subset, FS_CardinalityType

(* The last page told of reaches past the last row.                          *)
LEMMA LastPageReaches ==
  ASSUME NEW n \in Nat, NEW total \in Nat, n >= TotalPages(total)
  PROVE  total <= n * Limit
<1> DEFINE d == (total + Limit - 1) \div Limit
<1>1. d \in Int /\ total <= d * Limit
  BY BoundsAssumption
<1>2. d <= n
  BY DEF TotalPages
<1> HIDE DEF d
<1>3. d * Limit <= n * Limit
  BY <1>1, <1>2, BoundsAssumption
<1> QED
  BY <1>1, <1>3, BoundsAssumption

(* As long as no committed task changes, a listing only grows, and whatever  *)
(* is in it only gets more tasks ahead of it.                                *)
LEMMA ListingsGrow ==
  ASSUME \A k \in TaskIds : task[k] # None => task'[k] = task[k],
         NEW q
  PROVE  /\ Matching(q) \subseteq Matching(q)'
         /\ \A k \in TaskIds :
              Cardinality(Ahead(q, k)) <= Cardinality(Ahead(q, k)')
<1>1. Matching(q) \subseteq Matching(q)'
  BY DEF Matching
<1>2. ASSUME NEW k \in TaskIds
      PROVE  Cardinality(Ahead(q, k)) <= Cardinality(Ahead(q, k)')
  <2>1. Ahead(q, k) \subseteq Ahead(q, k)'
    BY <1>1 DEF Ahead, Before
  <2>2. Ahead(q, k)' \in SUBSET TaskIds
    BY DEF Ahead, Matching
  <2> QED
    BY <2>1, <2>2, TasksFinite, FS_Subset
<1> QED
  BY <1>1, <1>2

(* No step changes a committed task: a stamp belongs to one draft.           *)
LEMMA CommittedStay ==
  ASSUME TypeOK, Inductive, [Next]_vars
  PROVE  \A k \in TaskIds : task[k] # None => task'[k] = task[k]
<1>1. ASSUME NEW r \in Requests, CreateTaskCommit(r)
      PROVE  \A k \in TaskIds : task[k] # None => task'[k] = task[k]
  BY <1>1, RequestFields DEF CreateTaskCommit, Inductive, RequestsFit, TypeOK
<1>2. CASE UNCHANGED task
  BY <1>2
<1> QED
  BY <1>1, <1>2 DEF Next, Arrive, Advance, ProjectStep, CreateTeam, CreateTask, SubmitTask,
     OpenListing, SubmitTaskCommit, TurnPage, CountPages, Fail, taskTables, vars

(* What PagesSoFar says of one reader.                                       *)
SoFar(q) ==
  /\ q.wanted \subseteq Matching(q.query)
  /\ \A k \in q.wanted :
       Cardinality(Ahead(q.query, k))
         < (IF q.at = "count" THEN q.page ELSE q.page - 1) * Limit => k \in q.got

LEMMA PagesAreReaders ==
  ASSUME TypeOK
  PROVE  PagesSoFar <=> \A r \in Requests : At(r, "list") \/ At(r, "count") => SoFar(req[r])
BY DEF PagesSoFar, SoFar, At

(* What one reader has seen stays enough when tasks are created.             *)
LEMMA SoFarStays ==
  ASSUME \A k \in TaskIds : task[k] # None => task'[k] = task[k],
         NEW q, q.wanted \subseteq TaskIds, q.page \in Nat, SoFar(q)
  PROVE  /\ q.wanted \subseteq Matching(q.query)'
         /\ \A k \in q.wanted :
              Cardinality(Ahead(q.query, k)')
                < (IF q.at = "count" THEN q.page ELSE q.page - 1) * Limit => k \in q.got
<1> DEFINE bound == (IF q.at = "count" THEN q.page ELSE q.page - 1) * Limit
<1>1. bound \in Int
  BY BoundsAssumption
<1>2. \A k \in TaskIds : Cardinality(Ahead(q.query, k)) <= Cardinality(Ahead(q.query, k)')
  BY ListingsGrow
<1>3. \A k \in TaskIds : /\ Cardinality(Ahead(q.query, k)) \in Nat
                         /\ Cardinality(Ahead(q.query, k)') \in Nat
  BY TasksFinite DEF Ahead, Matching
<1>4. q.wanted \subseteq Matching(q.query)'
  BY ListingsGrow DEF SoFar
<1>5. \A k \in q.wanted : Cardinality(Ahead(q.query, k)) < bound => k \in q.got
  BY DEF SoFar
<1> HIDE DEF bound
<1>6. \A k \in q.wanted : Cardinality(Ahead(q.query, k)') < bound => k \in q.got
  BY <1>1, <1>2, <1>3, <1>5
<1> QED
  BY <1>4, <1>6 DEF bound

(* Reading page n shows what ranks within it.                                *)
LEMMA ShownIsEnough ==
  ASSUME NEW query, NEW n \in Nat, NEW W \in SUBSET TaskIds, NEW G \in SUBSET TaskIds,
         W \subseteq Matching(query),
         \A k \in W : Cardinality(Ahead(query, k)) < (n - 1) * Limit => k \in G
  PROVE  SoFar(Shown(query, n, W, G))
<1> DEFINE q == Shown(query, n, W, G)
<1>1. /\ q.at = "count" /\ q.query = query /\ q.page = n
      /\ q.wanted = W /\ q.got = G \cup Page(query, n)
  BY DEF Shown, Reading
<1>2. n * Limit = Skip(n) + Limit /\ Skip(n) \in Int /\ Skip(n) = (n - 1) * Limit
  BY BoundsAssumption DEF Skip
<1>3. ASSUME NEW k \in W, Cardinality(Ahead(query, k)) < n * Limit
      PROVE  k \in G \cup Page(query, n)
  <2>1. Cardinality(Ahead(query, k)) \in Nat
    BY TasksFinite DEF Ahead, Matching
  <2>2. CASE Cardinality(Ahead(query, k)) < Skip(n)
    BY <1>2, <2>2
  <2>3. CASE Skip(n) <= Cardinality(Ahead(query, k))
    BY <1>2, <1>3, <2>3 DEF Page
  <2> QED
    BY <1>2, <2>1, <2>2, <2>3
<1> HIDE DEF q
<1> QED
  BY <1>1, <1>3 DEF SoFar, q

LEMMA PagesStep ==
  ASSUME TypeOK, Inductive, PagesSoFar, [Next]_vars
  PROVE  PagesSoFar'
<1> USE DEF At
<1>1. \A k \in TaskIds : task[k] # None => task'[k] = task[k]
  BY CommittedStay
<1>2. TypeOK'
  BY TypeStep
<1>3. ASSUME NEW r \in Requests, At(r, "list") \/ At(r, "count")
      PROVE  /\ SoFar(req[r])
             /\ req[r].query \in Query /\ req[r].page \in Nat
             /\ req[r].wanted \in SUBSET TaskIds /\ req[r].got \in SUBSET TaskIds
  BY <1>3, PagesAreReaders, RequestFields
(* A reader that does not move keeps what it has. *)
<1>4. ASSUME NEW r \in Requests, At(r, "list") \/ At(r, "count"), req'[r] = req[r]
      PROVE  SoFar(req[r])'
  <2> SUFFICES ASSUME NEW q, q = req[r], q = req'[r]
               PROVE  SoFar(q)'
    BY <1>4
  <2>1. SoFar(q) /\ q.wanted \subseteq TaskIds /\ q.page \in Nat
    BY <1>3, <1>4
  <2>2. /\ q.wanted \subseteq Matching(q.query)'
        /\ \A k \in q.wanted :
             Cardinality(Ahead(q.query, k)')
               < (IF q.at = "count" THEN q.page ELSE q.page - 1) * Limit => k \in q.got
    BY <1>1, <2>1, SoFarStays
  <2> QED
    BY <2>2 DEF SoFar
<1>5. ASSUME NEW r \in Requests, NEW q, req' = [req EXCEPT ![r] = q],
             q # None /\ q.at \in {"list", "count"} => SoFar(q)'
      PROVE  PagesSoFar'
  <2>1. \A s \in Requests :
          At(s, "list")' \/ At(s, "count")' => SoFar(req[s])'
    <3> SUFFICES ASSUME NEW s \in Requests, At(s, "list")' \/ At(s, "count")'
                 PROVE  SoFar(req[s])'
      OBVIOUS
    <3>1. CASE s = r
      BY <1>5, <3>1 DEF TypeOK, SoFar
    <3>2. CASE s # r
      <4>1. req'[s] = req[s]
        BY <1>5, <3>2 DEF TypeOK
      <4> QED
        BY <1>4, <4>1
    <3> QED
      BY <3>1, <3>2
  <2> QED
    BY <2>1 DEF PagesSoFar, SoFar
<1>6. ASSUME UNCHANGED req
      PROVE  PagesSoFar'
  <2>1. \A s \in Requests : At(s, "list")' \/ At(s, "count")' => SoFar(req[s])'
    BY <1>4, <1>6
  <2> QED
    BY <2>1 DEF PagesSoFar, SoFar
<1>7. ASSUME NEW r \in Requests, NEW u \in Users, NEW row \in Drafts, CreateTask(r, u, row)
      PROVE  PagesSoFar'
  <2> SUFFICES ASSUME NEW q, q = [at |-> "create", stamp |-> stamps + 1, row |-> row]
               PROVE  PagesSoFar'
    OBVIOUS
  <2>1. q.at = "create" /\ req' = [req EXCEPT ![r] = q]
    BY <1>7 DEF CreateTask, Begin
  <2> QED
    BY <1>5, <2>1
<1>8. ASSUME NEW r \in Requests, NEW u \in Users, NEW k \in TaskIds,
             NEW a \in Participation, SubmitTask(r, u, k, a)
      PROVE  PagesSoFar'
  <2> DEFINE q == [at |-> "submit", task |-> k, by |-> a]
  <2>1. q.at = "submit" /\ req' = [req EXCEPT ![r] = q]
    BY <1>8 DEF SubmitTask, Begin
  <2> HIDE DEF q
  <2> QED
    BY <1>5, <2>1
<1>9. ASSUME NEW r \in Requests, req' = [req EXCEPT ![r] = None]
      PROVE  PagesSoFar'
  BY <1>5, <1>9
(* Reading a page changes no table. *)
<1>10. ASSUME NEW r \in Requests, NEW query \in Query, NEW n \in Nat,
              NEW W \in SUBSET TaskIds, NEW G \in SUBSET TaskIds,
              W \subseteq Matching(query),
              \A k \in W : Cardinality(Ahead(query, k)) < (n - 1) * Limit => k \in G,
              req' = [req EXCEPT ![r] = Shown(query, n, W, G)],
              UNCHANGED task
       PROVE  PagesSoFar'
  <2> SUFFICES ASSUME NEW q, q = Shown(query, n, W, G)
               PROVE  PagesSoFar'
    OBVIOUS
  <2>1. SoFar(q)
    BY <1>10, ShownIsEnough
  <2>2. SoFar(q)'
    BY <1>10, <2>1 DEF SoFar, Ahead, Matching, Before
  <2> QED
    BY <1>5, <1>10, <2>2
<1>11. ASSUME NEW r \in Requests, NEW query \in Listings, OpenListing(r, query)
       PROVE  PagesSoFar'
  <2> SUFFICES ASSUME NEW W, NEW n, NEW G, W = Matching(query), n = 1, G = {}
               PROVE  PagesSoFar'
    OBVIOUS
  <2>1. /\ W \in SUBSET TaskIds /\ query \in Query /\ n \in Nat
        /\ G \in SUBSET TaskIds /\ W \subseteq Matching(query)
    BY InputsAssumption DEF Matching
  <2>2. \A k \in W : Cardinality(Ahead(query, k)) < (n - 1) * Limit => k \in G
    <3>1. \A k \in W : Cardinality(Ahead(query, k)) \in Nat
      BY TasksFinite DEF Ahead, Matching
    <3> QED
      BY <3>1, BoundsAssumption
  <2>3. req' = [req EXCEPT ![r] = Shown(query, n, W, G)] /\ UNCHANGED task
    BY <1>11 DEF OpenListing, Begin, taskTables
  <2> QED
    BY <1>10, <2>1, <2>2, <2>3
<1>12. ASSUME NEW r \in Requests, TurnPage(r)
       PROVE  PagesSoFar'
  <2> SUFFICES ASSUME NEW query, NEW n, NEW W, NEW G,
                      query = req[r].query, n = req[r].page,
                      W = req[r].wanted, G = req[r].got
               PROVE  PagesSoFar'
    OBVIOUS
  <2>1. req[r].at = "list"
    BY <1>12 DEF TurnPage
  <2>2. /\ SoFar(req[r])
        /\ query \in Query /\ n \in Nat /\ W \in SUBSET TaskIds /\ G \in SUBSET TaskIds
    BY <1>3, <1>12 DEF TurnPage
  <2>3. /\ W \subseteq Matching(query)
        /\ \A k \in W : Cardinality(Ahead(query, k)) < (n - 1) * Limit => k \in G
    BY <2>1, <2>2 DEF SoFar
  <2>4. req' = [req EXCEPT ![r] = Shown(query, n, W, G)] /\ UNCHANGED task
    BY <1>12 DEF TurnPage, taskTables
  <2> QED
    BY <1>10, <2>2, <2>3, <2>4
<1>13. ASSUME NEW r \in Requests, CountPages(r)
       PROVE  PagesSoFar'
  <2>1. CASE LastPage(r)
    BY <1>9, <1>13, <2>1 DEF CountPages, End
  <2>2. CASE ~LastPage(r)
    <3> SUFFICES ASSUME NEW q,
                        q = Reading("list", req[r].query, req[r].page + 1, req[r].wanted, req[r].got)
                 PROVE  PagesSoFar'
      OBVIOUS
    <3>1. /\ q.at = "list" /\ q.query = req[r].query /\ q.page = req[r].page + 1
          /\ q.wanted = req[r].wanted /\ q.got = req[r].got
      BY DEF Reading
    <3>2. /\ SoFar(req[r]) /\ req[r].at = "count" /\ req[r].page \in Nat
      BY <1>3, <1>13 DEF CountPages
    <3>3. q.page - 1 = req[r].page
      BY <3>1, <3>2
    <3>4. SoFar(q)
      BY <3>1, <3>2, <3>3 DEF SoFar
    <3>5. req' = [req EXCEPT ![r] = q] /\ UNCHANGED task
      BY <1>13, <2>2 DEF CountPages, taskTables
    <3>6. SoFar(q)'
      BY <3>4, <3>5 DEF SoFar, Ahead, Matching, Before
    <3> QED
      BY <1>5, <3>5, <3>6
  <2> QED
    BY <2>1, <2>2
<1> QED
  BY <1>6, <1>7, <1>8, <1>9, <1>11, <1>12, <1>13 DEF Next, Arrive, Advance, ProjectStep,
     CreateTeam, CreateTaskCommit, SubmitTaskCommit, Fail, End, vars

LEMMA PagesInit == Init => PagesSoFar
BY DEF Init, PagesSoFar, At

(* Whoever reads page by page to the last page told of has been shown every  *)
(* task the listing held at the beginning: for every page size and every     *)
(* number of tasks created meanwhile.                                        *)
THEOREM PagesNeverMiss == Spec => PagesMissNothing
<1>1. ASSUME TypeOK, PagesSoFar, [Next]_vars, NEW r \in Requests,
             At(r, "count"), req'[r] = None
      PROVE  req[r].wanted \subseteq req[r].got
  <2> USE DEF At, Begin, End
  <2>1. CountPages(r)
    <3>1. ASSUME NEW s \in Requests, NEW q, req' = [req EXCEPT ![s] = q]
          PROVE  s = r
      BY <1>1, <3>1 DEF TypeOK
    <3>2. \E s \in Requests : Arrive(s) \/ Advance(s)
      BY <1>1 DEF Next, ProjectStep, CreateTeam, vars
    <3>3. PICK s \in Requests : Arrive(s) \/ Advance(s)
      BY <3>2
    <3>4. CASE Arrive(s)
      <4>1. req[s] = None /\ \E q : req' = [req EXCEPT ![s] = q]
        BY <3>4 DEF Arrive, CreateTask, SubmitTask, OpenListing
      <4> QED
        BY <1>1, <3>1, <4>1
    <3>5. CASE Advance(s)
      <4>1. \E q : req' = [req EXCEPT ![s] = q]
        BY <3>5 DEF Advance, CreateTaskCommit, SubmitTaskCommit, TurnPage, CountPages, Fail
      <4>2. s = r
        BY <3>1, <4>1
      <4> QED
        BY <1>1, <3>5, <4>2 DEF Advance, CreateTaskCommit, SubmitTaskCommit, TurnPage, Fail
    <3> QED
      BY <3>3, <3>4, <3>5
  <2> DEFINE query == req[r].query
             M == Matching(query)
  <2>2. /\ req[r].page \in Nat /\ req[r].wanted \subseteq M
        /\ \A k \in req[r].wanted :
             Cardinality(Ahead(query, k)) < req[r].page * Limit => k \in req[r].got
    BY <1>1, RequestFields DEF PagesSoFar
  <2>3. LastPage(r)
    <3>1. Reading("list", query, req[r].page + 1, req[r].wanted, req[r].got) \in Request
      <4>1. /\ query \in Query /\ req[r].page + 1 \in Nat
            /\ req[r].wanted \in SUBSET TaskIds /\ req[r].got \in SUBSET TaskIds
        BY <1>1, RequestFields
      <4> QED
        BY <4>1, ReaderType
    <3>2. Reading("list", query, req[r].page + 1, req[r].wanted, req[r].got) # None
      BY <3>1, NoneIsNoRecord
    <3> QED
      BY <1>1, <2>1, <3>2 DEF CountPages, TypeOK
  <2>4. M \in SUBSET TaskIds /\ IsFiniteSet(M) /\ Cardinality(M) \in Nat
    BY TasksFinite DEF Matching
  <2>5. Cardinality(M) <= req[r].page * Limit
    BY <2>2, <2>3, <2>4, LastPageReaches, BoundsAssumption DEF LastPage
  <2>6. ASSUME NEW k \in M
        PROVE  Cardinality(Ahead(query, k)) < Cardinality(M)
    <3>1. Ahead(query, k) \subseteq M /\ k \notin Ahead(query, k)
      BY <2>4 DEF Ahead, Before, TaskIds
    <3>2. Cardinality(Ahead(query, k)) <= Cardinality(M)
          /\ (Cardinality(Ahead(query, k)) = Cardinality(M) => Ahead(query, k) = M)
      BY <2>4, <3>1, FS_Subset
    <3>3. Cardinality(Ahead(query, k)) \in Nat
      BY <2>4, <3>1, TasksFinite
    <3> QED
      BY <2>4, <3>1, <3>2, <3>3
  <2>7. \A k \in req[r].wanted :
          /\ Cardinality(Ahead(query, k)) < req[r].page * Limit
    <3>1. \A k \in M : Cardinality(Ahead(query, k)) \in Nat
      BY <2>4, TasksFinite DEF Ahead
    <3>2. req[r].page * Limit \in Nat
      BY <2>2, BoundsAssumption
    <3> HIDE DEF M, query
    <3> QED
      BY <2>2, <2>4, <2>5, <2>6, <3>1, <3>2
  <2> QED
    BY <2>2, <2>7
<1>2. TypeOK /\ PagesSoFar /\ [Next]_vars =>
        \A r \in Requests :
          At(r, "count") /\ req'[r] = None => req[r].wanted \subseteq req[r].got
  BY <1>1
<1> QED
  BY <1>2, TypeInit, TypeStep, InductiveInit, InductiveStep, PagesInit, PagesStep, PTL
     DEF Spec, PagesMissNothing

-----------------------------------------------------------------------------
(* Finite sets                                                               *)

(* Finite sets are well-founded: a collection of finite sets has a member    *)
(* none of whose proper subsets belongs to it.                               *)
LEMMA SmallestSubset ==
  ASSUME NEW S, NEW C, C \subseteq SUBSET S, C # {}, \A T \in C : IsFiniteSet(T)
  PROVE  \E T \in C : \A U \in SUBSET T : U # T => U \notin C
<1>1. C \subseteq FiniteSubsetsOf(S)
  BY DEF FiniteSubsetsOf
<1>2. PICK T \in C : \A U \in C : <<U, T>> \notin StrictSubsetOrdering(S)
  BY <1>1, FS_StrictSubsetOrderingWellFounded, WFMin
<1>3. \A U \in C : U \subseteq T /\ U # T => <<U, T>> \in StrictSubsetOrdering(S)
  BY DEF StrictSubsetOrdering
<1>4. \A U \in SUBSET T : U # T => U \notin C
  BY <1>2, <1>3
<1> QED
  BY <1>4

(* Induction over a finite set: C is the set of the subsets the statement    *)
(* holds of.                                                                 *)
LEMMA SetInduction ==
  ASSUME NEW S, IsFiniteSet(S), NEW C, {} \in C,
         \A T \in SUBSET S : \A x \in S \ T : T \in C => T \cup {x} \in C
  PROVE  S \in C
<1> DEFINE B == {T \in SUBSET S : T \notin C}
<1> SUFFICES ASSUME S \notin C PROVE FALSE
  OBVIOUS
<1>1. PICK T \in B : \A U \in SUBSET T : U # T => U \notin B
  <2>1. B \subseteq SUBSET S /\ B # {} /\ \A U \in B : IsFiniteSet(U)
    BY FS_Subset
  <2> HIDE DEF B
  <2> QED
    BY <2>1, SmallestSubset
<1>2. T \in SUBSET S /\ T \notin C
  BY <1>1
<1>3. PICK x : x \in T
  BY <1>2
<1>4. T \ {x} \in SUBSET S /\ x \in S \ (T \ {x})
  BY <1>2, <1>3
<1>5. T \ {x} \in C
  BY <1>1, <1>3, <1>4
<1>6. (T \ {x}) \cup {x} \in C
  BY <1>4, <1>5
<1>7. (T \ {x}) \cup {x} = T
  BY <1>3
<1> QED
  BY <1>2, <1>6, <1>7

-----------------------------------------------------------------------------
(* The folds of the library, step by step: f[s] is what folding s gives.     *)
Pick(s) == CHOOSE x \in s : TRUE

Iterates(f, op, base, S) ==
  \A s \in SUBSET S : f[s] = IF s = {} THEN base ELSE op[<<Pick(s), f[s \ {Pick(s)}]>>]

(* The element the folds take next is one of the set.                        *)
LEMMA PickIn ==
  ASSUME NEW s, s # {}
  PROVE  Pick(s) \in s
  BY DEF Pick

(* f[s] depends on no more than the elements of s.                           *)
LEMMA IterationUnique ==
  ASSUME NEW op, NEW base, NEW f, NEW A, NEW g, NEW B,
         Iterates(f, op, base, A), Iterates(g, op, base, B),
         NEW s \in SUBSET (A \cap B), IsFiniteSet(s)
  PROVE  f[s] = g[s]
<1> DEFINE C == {t \in SUBSET s : f[t] # g[t]}
<1> SUFFICES ASSUME f[s] # g[s] PROVE FALSE
  OBVIOUS
<1>1. PICK t \in C : \A u \in SUBSET t : u # t => u \notin C
  <2>1. C \subseteq SUBSET s /\ C # {} /\ \A u \in C : IsFiniteSet(u)
    BY FS_Subset
  <2> HIDE DEF C
  <2> QED
    BY <2>1, SmallestSubset
<1>2. t \in SUBSET s /\ f[t] # g[t]
  BY <1>1
<1>3. t # {}
  BY <1>2 DEF Iterates
<1>4. f[t \ {Pick(t)}] = g[t \ {Pick(t)}]
  BY <1>1, <1>2, <1>3, PickIn
<1> QED
  BY <1>2, <1>3, <1>4 DEF Iterates

(* What one step of a fold keeps, the fold keeps: Q[s] is the set of the     *)
(* results that are right for s.                                             *)
LEMMA IterationKeeps ==
  ASSUME NEW S, IsFiniteSet(S), NEW Q, NEW iter, iter[{}] \in Q[{}],
         \A s \in SUBSET S :
           s # {} /\ iter[s \ {Pick(s)}] \in Q[s \ {Pick(s)}] => iter[s] \in Q[s]
  PROVE  \A s \in SUBSET S : iter[s] \in Q[s]
<1> DEFINE C == {t \in SUBSET S : iter[t] \notin Q[t]}
<1> SUFFICES ASSUME C # {} PROVE FALSE
  OBVIOUS
<1>1. PICK t \in C : \A u \in SUBSET t : u # t => u \notin C
  <2>1. C \subseteq SUBSET S /\ \A u \in C : IsFiniteSet(u)
    BY FS_Subset
  <2> HIDE DEF C
  <2> QED
    BY <2>1, SmallestSubset
<1>2. t \in SUBSET S /\ iter[t] \notin Q[t] /\ t # {}
  BY <1>1
<1>3. iter[t \ {Pick(t)}] \in Q[t \ {Pick(t)}]
  BY <1>1, <1>2, PickIn
<1> QED
  BY <1>2, <1>3

(* Over a finite set there is such an f: without it the CHOOSE in the        *)
(* library's fold would say nothing.                                         *)
LEMMA IterationExists ==
  ASSUME NEW S, IsFiniteSet(S), NEW D, S \subseteq D, NEW V, NEW base \in V,
         NEW op \in [D \X V -> V]
  PROVE  \E f \in [SUBSET S -> V] : Iterates(f, op, base, S)
<1> DEFINE Good(T) == {f \in [SUBSET T -> V] : Iterates(f, op, base, T)}
           C == {T \in SUBSET S : Good(T) = {}}
<1> SUFFICES ASSUME Good(S) = {} PROVE FALSE
  OBVIOUS
<1>1. PICK T \in C : \A U \in SUBSET T : U # T => U \notin C
  <2>1. C \subseteq SUBSET S /\ C # {} /\ \A U \in C : IsFiniteSet(U)
    BY FS_Subset
  <2> HIDE DEF C
  <2> QED
    BY <2>1, SmallestSubset
<1>3. T \in SUBSET S /\ IsFiniteSet(T) /\ Good(T) = {}
  BY <1>1, FS_Subset
<1> DEFINE h(U) == CHOOSE f : f \in Good(U)
<1>4. ASSUME NEW U \in SUBSET T, U # T
      PROVE  h(U) \in Good(U)
  <2>2. Good(U) # {}
    BY <1>1, <1>3, <1>4
  <2> HIDE DEF Good
  <2> QED
    BY <2>2
<1> DEFINE F == [s \in SUBSET T |->
                   IF s # T THEN h(s)[s]
                   ELSE IF T = {} THEN base
                   ELSE op[<<Pick(T), h(T \ {Pick(T)})[T \ {Pick(T)}]>>]]
<1>5. ASSUME NEW s \in SUBSET T, s # T PROVE F[s] = h(s)[s] /\ F[s] \in V
  <2>1. F[s] = h(s)[s]
    BY <1>5
  <2>2. h(s)[s] \in V
    BY <1>4, <1>5
  <2> QED
    BY <2>1, <2>2
<1>6. ASSUME NEW s \in SUBSET T, s # {}
      PROVE  s \ {Pick(s)} \in SUBSET T /\ s \ {Pick(s)} # T /\ Pick(s) \in D
             /\ F[s \ {Pick(s)}] = h(s \ {Pick(s)})[s \ {Pick(s)}] /\ F[s \ {Pick(s)}] \in V
  <2>1. Pick(s) \in s
    BY <1>6, PickIn
  <2>2. s \ {Pick(s)} \in SUBSET T /\ s \ {Pick(s)} # T /\ Pick(s) \in D
    BY <2>1, <1>3
  <2> HIDE DEF F, h
  <2> QED
    BY <2>2, <1>5
<1>7. F[T] = IF T = {} THEN base ELSE op[<<Pick(T), F[T \ {Pick(T)}]>>]
  <2>1. F[T] = IF T = {} THEN base
               ELSE op[<<Pick(T), h(T \ {Pick(T)})[T \ {Pick(T)}]>>]
    OBVIOUS
  <2> HIDE DEF F, h
  <2> QED
    BY <2>1, <1>6
<1>8. ASSUME NEW s \in SUBSET T, s # T
      PROVE  F[s] = IF s = {} THEN base ELSE op[<<Pick(s), F[s \ {Pick(s)}]>>]
  <2> DEFINE u == s \ {Pick(s)}
  <2>1. h(s) \in Good(s)
    BY <1>4, <1>8
  <2>2. h(s)[s] = IF s = {} THEN base ELSE op[<<Pick(s), h(s)[u]>>]
    BY <2>1 DEF Iterates
  <2>3. ASSUME s # {} PROVE h(s)[u] = F[u]
    <3>1. u \in SUBSET T /\ u # T /\ u \in SUBSET s /\ F[u] = h(u)[u]
      BY <1>6, <2>3
    <3>2. h(u) \in Good(u) /\ IsFiniteSet(u)
      BY <1>4, <3>1, <1>3, FS_Subset
    <3>3. Iterates(h(s), op, base, s) /\ Iterates(h(u), op, base, u)
      BY <2>1, <3>2
    <3> HIDE DEF h, u, F
    <3> QED
      BY <3>1, <3>2, <3>3, IterationUnique
  <2> HIDE DEF F, h
  <2> QED
    BY <2>2, <2>3, <1>5, <1>8
<1>9. \A s \in SUBSET T : F[s] = IF s = {} THEN base ELSE op[<<Pick(s), F[s \ {Pick(s)}]>>]
  <2> HIDE DEF F, h
  <2> QED
    BY <1>7, <1>8
<1>10. F \in [SUBSET T -> V]
  <2>1. \A s \in SUBSET T : F[s] \in V
    <3> HIDE DEF F, h
    <3> QED
      BY <1>9, <1>6
  <2>2. F = [s \in SUBSET T |-> F[s]]
    OBVIOUS
  <2> HIDE DEF F, h
  <2> QED
    BY <2>1, <2>2
<1>11. F \in Good(T)
  <2> HIDE DEF F, h
  <2> QED
    BY <1>9, <1>10 DEF Iterates
<1> QED
  BY <1>3, <1>11

-----------------------------------------------------------------------------
(* Sums of natural numbers                                                   *)

Plus(fun) == [d \in (DOMAIN fun) \X Nat |-> fun[d[1]] + d[2]]

(* The library's sum is what the iteration of Plus gives, a natural number.  *)
LEMMA SumIterates ==
  ASSUME NEW D, NEW fun \in [D -> Nat], NEW S \in SUBSET D, IsFiniteSet(S)
  PROVE  \E iter :
           /\ Iterates(iter, Plus(fun), 0, S)
           /\ \A s \in SUBSET S : iter[s] \in Nat
           /\ SumFunctionOnSet(fun, S) = iter[S]
<1> DEFINE op == Plus(fun)
           IsIter(g) ==
             g = [s \in SUBSET S |-> IF s = {} THEN 0 ELSE fun[Pick(s)] + g[s \ {Pick(s)}]]
           iter == CHOOSE g : IsIter(g)
<1>1. op \in [D \X Nat -> Nat] /\ \A x \in D, n \in Nat : op[<<x, n>>] = fun[x] + n
  BY DEF Plus
<1>2. SumFunctionOnSet(fun, S) = iter[S]
  BY DEF SumFunctionOnSet, FoldFunctionOnSet, MapThenFoldSet, Pick
<1>3. \E g : IsIter(g)
  <2>1. PICK f \in [SUBSET S -> Nat] : Iterates(f, op, 0, S)
    <3> HIDE DEF op
    <3> QED
      BY <1>1, IterationExists
  <2>2. \A s \in SUBSET S : s # {} => Pick(s) \in D /\ f[s \ {Pick(s)}] \in Nat
    BY PickIn
  <2>3. \A s \in SUBSET S : f[s] = IF s = {} THEN 0 ELSE fun[Pick(s)] + f[s \ {Pick(s)}]
    <3> HIDE DEF op
    <3> QED
      BY <1>1, <2>1, <2>2 DEF Iterates
  <2>4. f = [s \in SUBSET S |-> f[s]]
    OBVIOUS
  <2> QED
    BY <2>3, <2>4
<1>4. IsIter(iter)
  <2> HIDE DEF IsIter
  <2> QED
    BY <1>3
<1>5. \A s \in SUBSET S : iter[s] = IF s = {} THEN 0 ELSE fun[Pick(s)] + iter[s \ {Pick(s)}]
  <2> HIDE DEF iter
  <2> QED
    BY <1>4
<1> HIDE DEF iter, op
<1>6. \A s \in SUBSET S : iter[s] \in Nat
  <2>1. \A s \in SUBSET S : s # {} /\ iter[s \ {Pick(s)}] \in Nat => iter[s] \in Nat
    BY <1>5, PickIn
  <2>2. iter[{}] = 0 /\ 0 \in Nat
    BY <1>5
  <2> DEFINE Q == [s \in SUBSET S |-> Nat]
  <2>3. iter[{}] \in Q[{}]
    BY <2>2
  <2>4. \A s \in SUBSET S :
          s # {} /\ iter[s \ {Pick(s)}] \in Q[s \ {Pick(s)}] => iter[s] \in Q[s]
    BY <2>1, PickIn
  <2> HIDE DEF Q
  <2>5. \A s \in SUBSET S : iter[s] \in Q[s]
    BY <2>3, <2>4, IterationKeeps
  <2> QED
    BY <2>5 DEF Q
<1>7. Iterates(iter, op, 0, S)
  <2>1. \A s \in SUBSET S : s # {} => Pick(s) \in D /\ iter[s \ {Pick(s)}] \in Nat
    BY <1>6, PickIn
  <2> QED
    BY <1>1, <1>5, <2>1 DEF Iterates
<1> QED
  BY <1>2, <1>6, <1>7 DEF op

(* The sum over no element.                                                  *)
LEMMA SumOnEmpty ==
  ASSUME NEW D, NEW fun \in [D -> Nat]
  PROVE  SumFunctionOnSet(fun, {}) = 0
<1>1. PICK iter : Iterates(iter, Plus(fun), 0, {}) /\ SumFunctionOnSet(fun, {}) = iter[{}]
  BY SumIterates, FS_EmptySet
<1> QED
  BY <1>1 DEF Iterates

(* The sum over a set is the sum over the rest plus any of its elements.     *)
LEMMA SumOnRest ==
  ASSUME NEW D, NEW fun \in [D -> Nat], NEW S \in SUBSET D, IsFiniteSet(S), NEW x \in S
  PROVE  /\ SumFunctionOnSet(fun, S) \in Nat
         /\ SumFunctionOnSet(fun, S \ {x}) \in Nat
         /\ SumFunctionOnSet(fun, S) = fun[x] + SumFunctionOnSet(fun, S \ {x})
<1>1. PICK iter : /\ Iterates(iter, Plus(fun), 0, S)
                  /\ \A s \in SUBSET S : iter[s] \in Nat
                  /\ SumFunctionOnSet(fun, S) = iter[S]
  BY SumIterates
<1>2. \A s \in SUBSET S : SumFunctionOnSet(fun, s) = iter[s]
  <2> TAKE s \in SUBSET S
  <2>1. IsFiniteSet(s) /\ s \in SUBSET D
    BY FS_Subset
  <2>2. PICK g : Iterates(g, Plus(fun), 0, s) /\ SumFunctionOnSet(fun, s) = g[s]
    BY <2>1, SumIterates
  <2>3. iter[s] = g[s]
    BY <1>1, <2>1, <2>2, IterationUnique
  <2> QED
    BY <2>2, <2>3
<1>3. \A s \in SUBSET S : s # {} => iter[s] = fun[Pick(s)] + iter[s \ {Pick(s)}]
  <2> TAKE s \in SUBSET S
  <2> HAVE s # {}
  <2>1. Pick(s) \in D /\ s \ {Pick(s)} \in SUBSET S
    BY PickIn
  <2>2. iter[s] = Plus(fun)[<<Pick(s), iter[s \ {Pick(s)}]>>] /\ iter[s \ {Pick(s)}] \in Nat
    BY <1>1, <2>1 DEF Iterates
  <2> QED
    BY <2>1, <2>2 DEF Plus
<1> DEFINE C == {t \in SUBSET S : \E y \in t : iter[t] # fun[y] + iter[t \ {y}]}
<1>4. C = {}
  <2> SUFFICES ASSUME C # {} PROVE FALSE
    OBVIOUS
  <2>1. PICK t \in C : \A u \in SUBSET t : u # t => u \notin C
    <3>1. C \subseteq SUBSET S /\ \A u \in C : IsFiniteSet(u)
      BY FS_Subset
    <3> HIDE DEF C
    <3> QED
      BY <3>1, SmallestSubset
  <2>2. PICK y \in t : iter[t] # fun[y] + iter[t \ {y}]
    BY <2>1
  <2> DEFINE z == Pick(t)
  <2>3. t \in SUBSET S /\ z \in t /\ iter[t] = fun[z] + iter[t \ {z}] /\ y # z
    BY <1>3, <2>1, <2>2, PickIn
  <2> HIDE DEF z
  <2>4. /\ t \ {z} \in SUBSET S /\ y \in t \ {z} /\ t \ {z} \notin C
        /\ t \ {y} \in SUBSET S /\ z \in t \ {y} /\ t \ {y} \notin C
    <3>1. t \ {z} # t /\ t \ {y} # t
      BY <2>3
    <3> HIDE DEF C
    <3> QED
      BY <2>1, <2>3, <3>1
  <2>5. /\ iter[t \ {z}] = fun[y] + iter[(t \ {z}) \ {y}]
        /\ iter[t \ {y}] = fun[z] + iter[(t \ {y}) \ {z}]
    BY <2>4
  <2>6. iter[(t \ {z}) \ {y}] = iter[(t \ {y}) \ {z}]
    <3>1. (t \ {z}) \ {y} = (t \ {y}) \ {z}
      OBVIOUS
    <3> QED
      BY <3>1, Zenon
  <2>7. /\ fun[y] \in Nat /\ fun[z] \in Nat
        /\ iter[t \ {z}] \in Nat /\ iter[t \ {y}] \in Nat /\ iter[(t \ {y}) \ {z}] \in Nat
    BY <1>1, <2>3
  <2>8. \A a, b, c \in Nat : a + (b + c) = b + (a + c)
    OBVIOUS
  <2>9. iter[t] = fun[z] + (fun[y] + iter[(t \ {y}) \ {z}])
    BY <2>3, <2>5, <2>6, Zenon
  <2>10. iter[t] = fun[y] + (fun[z] + iter[(t \ {y}) \ {z}])
    BY <2>7, <2>8, <2>9, Zenon
  <2> QED
    BY <2>2, <2>5, <2>10, Zenon
<1> QED
  BY <1>1, <1>2, <1>4

(* The sums over two sets that share nothing add up to that over both.       *)
LEMMA SumOnUnion ==
  ASSUME NEW D, NEW fun \in [D -> Nat], NEW A \in SUBSET D, IsFiniteSet(A),
         NEW B \in SUBSET D, IsFiniteSet(B), A \cap B = {}
  PROVE  SumFunctionOnSet(fun, A \cup B) = SumFunctionOnSet(fun, A) + SumFunctionOnSet(fun, B)
<1> DEFINE Sum(T) == SumFunctionOnSet(fun, T)
           C == {T \in SUBSET B : Sum(A \cup T) = Sum(A) + Sum(T)}
<1>1. ASSUME NEW T \in SUBSET D, IsFiniteSet(T) PROVE Sum(T) \in Nat
  BY <1>1, SumIterates
<1>2. {} \in C
  <2>1. A \cup {} = A /\ Sum({}) = 0 /\ Sum(A) \in Nat
    BY <1>1, SumOnEmpty
  <2> HIDE DEF Sum
  <2> QED
    BY <2>1
<1>3. ASSUME NEW T \in SUBSET B, NEW x \in B \ T, T \in C
      PROVE  T \cup {x} \in C
  <2>1. /\ IsFiniteSet(T) /\ IsFiniteSet(T \cup {x}) /\ IsFiniteSet(A \cup T)
        /\ IsFiniteSet(A \cup (T \cup {x}))
    BY FS_Subset, FS_Union, FS_AddElement
  <2>2. /\ (T \cup {x}) \ {x} = T
        /\ (A \cup (T \cup {x})) \ {x} = A \cup T
        /\ A \cup (T \cup {x}) \in SUBSET D /\ T \cup {x} \in SUBSET D
    OBVIOUS
  <2>3. Sum(T \cup {x}) = fun[x] + Sum(T)
    BY <2>1, <2>2, SumOnRest
  <2>4. Sum(A \cup (T \cup {x})) = fun[x] + Sum(A \cup T)
    BY <2>1, <2>2, SumOnRest
  <2>5. Sum(A \cup T) = Sum(A) + Sum(T)
    BY <1>3
  <2>6. Sum(A) \in Nat /\ Sum(T) \in Nat /\ fun[x] \in Nat
    BY <1>1, <2>1
  <2>7. Sum(A \cup (T \cup {x})) = Sum(A) + Sum(T \cup {x})
    <3> HIDE DEF Sum
    <3> QED
      BY <2>3, <2>4, <2>5, <2>6
  <2> HIDE DEF Sum
  <2> QED
    BY <2>2, <2>7
<1>4. B \in C
  <2> HIDE DEF C
  <2> QED
    BY <1>2, <1>3, SetInduction
<1> QED
  BY <1>4

(* The sum over a set on which a function is constant.                       *)
LEMMA SumOfConstant ==
  ASSUME NEW D, NEW fun \in [D -> Nat], NEW S \in SUBSET D, IsFiniteSet(S),
         NEW n \in Nat, \A x \in S : fun[x] = n
  PROVE  SumFunctionOnSet(fun, S) = n * Cardinality(S)
<1> DEFINE Sum(T) == SumFunctionOnSet(fun, T)
           C == {T \in SUBSET S : Sum(T) = n * Cardinality(T)}
<1>1. {} \in C
  BY SumOnEmpty, FS_EmptySet
<1>2. ASSUME NEW T \in SUBSET S, NEW x \in S \ T, T \in C
      PROVE  T \cup {x} \in C
  <2>1. IsFiniteSet(T) /\ IsFiniteSet(T \cup {x})
    BY FS_Subset, FS_AddElement
  <2>2. Cardinality(T \cup {x}) = Cardinality(T) + 1 /\ Cardinality(T) \in Nat
    BY <2>1, FS_AddElement, FS_CardinalityType
  <2>3. (T \cup {x}) \ {x} = T /\ T \cup {x} \in SUBSET D
    OBVIOUS
  <2>4. Sum(T \cup {x}) = n + Sum(T)
    BY <2>1, <2>3, SumOnRest
  <2>5. Sum(T) = n * Cardinality(T)
    BY <1>2
  <2>6. \A c \in Nat : n + n * c = n * (c + 1)
    OBVIOUS
  <2>7. Sum(T \cup {x}) = n * Cardinality(T \cup {x})
    <3> HIDE DEF Sum
    <3> QED
      BY <2>2, <2>4, <2>5, <2>6
  <2> QED
    BY <2>3, <2>7
<1>3. S \in C
  <2> HIDE DEF C
  <2> QED
    BY <1>1, <1>2, SetInduction
<1> QED
  BY <1>3

-----------------------------------------------------------------------------
(* The views                                                                 *)

(* Listed tasks are finite in number. *)
LEMMA TasksOfFinite ==
  ASSUME NEW p
  PROVE  \A T \in SUBSET TasksOf(p) : IsFiniteSet(T) /\ Cardinality(T) \in Nat
BY TasksFinite DEF TasksOf

(* The groups by status, added up in any order, count every task once.       *)
LEMMA TaskCountsAddUp ==
  ASSUME TypeOK, NEW p \in Projects
  PROVE  /\ TaskCounts(p).total = Cardinality(TasksOf(p))
         /\ TaskCounts(p).todo = Cardinality({k \in TasksOf(p) : task[k].status = "TODO"})
<1> DEFINE With(s) == {k \in TasksOf(p) : task[k].status = s}
           Group(s) == [status |-> s, count |-> Cardinality(With(s))]
           G == StatusGroups(p)
           V == [total : Nat, todo : Nat, done : Nat]
           base == [total |-> 0, todo |-> 0, done |-> 0]
           op == [d \in G \X V |-> AddGroup(d[1], d[2])]
           IsIter(g) ==
             g = [s \in SUBSET G |->
                    IF s = {} THEN base ELSE AddGroup(Pick(s), g[s \ {Pick(s)}])]
           iter == CHOOSE g : IsIter(g)
<1>1. TaskCounts(p) = iter[G]
  BY DEF TaskCounts, FoldSet, MapThenFoldSet, Pick
<1>2. \A k \in TasksOf(p) : task[k].status \in Statuses
  BY DEF TypeOK, TaskRow, TasksOf
<1>3. \A x \in G : x.status \in Statuses /\ x = Group(x.status)
  <2> TAKE x \in G
  <2>1. PICK k \in TasksOf(p) : x = Group(task[k].status)
    BY DEF StatusGroups
  <2>2. x.status = task[k].status
    BY <2>1
  <2> HIDE DEF Group
  <2> QED
    BY <2>1, <2>2, <1>2
<1>4. \A x \in G : x.count = Cardinality(With(x.status)) /\ x.count \in Nat
  BY <1>3, TasksOfFinite
<1>5. IsFiniteSet(G)
  <2>1. G \subseteq {Group("TODO"), Group("IN_PROGRESS"), Group("DONE")}
    <3> HIDE DEF Group, G
    <3> QED
      BY <1>3 DEF Statuses
  <2>2. IsFiniteSet({Group("TODO"), Group("IN_PROGRESS"), Group("DONE")})
    <3> HIDE DEF Group
    <3>1. IsFiniteSet({Group("TODO")})
      BY FS_Singleton
    <3>2. IsFiniteSet({Group("TODO")} \cup {Group("IN_PROGRESS")})
      BY <3>1, FS_AddElement
    <3>3. IsFiniteSet(({Group("TODO")} \cup {Group("IN_PROGRESS")}) \cup {Group("DONE")})
      BY <3>2, FS_AddElement
    <3>4. ({Group("TODO")} \cup {Group("IN_PROGRESS")}) \cup {Group("DONE")}
            = {Group("TODO"), Group("IN_PROGRESS"), Group("DONE")}
      OBVIOUS
    <3> QED
      BY <3>3, <3>4
  <2> DEFINE H == {Group("TODO"), Group("IN_PROGRESS"), Group("DONE")}
  <2>3. G \in SUBSET H /\ IsFiniteSet(H)
    BY <2>1, <2>2
  <2> HIDE DEF G, H
  <2> QED
    BY <2>3, FS_Subset
<1>6. \A x \in G, v \in V :
        /\ AddGroup(x, v) \in V
        /\ AddGroup(x, v).total = v.total + x.count
        /\ AddGroup(x, v).todo = IF x.status = "TODO" THEN x.count ELSE v.todo
  <2> TAKE x \in G, v \in V
  <2>1. x.count \in Nat
    BY <1>4
  <2> HIDE DEF G
  <2>2. AddGroup(x, v) = [total |-> v.total + x.count,
                          todo |-> IF x.status = "TODO" THEN x.count ELSE v.todo,
                          done |-> IF x.status = "DONE" THEN x.count ELSE v.done]
    BY DEF AddGroup, Noted
  <2> DEFINE w == AddGroup(x, v)
  <2>3. w.total = v.total + x.count /\ w.todo = IF x.status = "TODO" THEN x.count ELSE v.todo
    BY <2>2
  <2>4. w \in V
    BY <2>1, <2>2
  <2> QED
    BY <2>3, <2>4
<1>7. \E g : IsIter(g)
  <2>1. op \in [G \X V -> V] /\ \A x \in G, v \in V : op[<<x, v>>] = AddGroup(x, v)
    BY <1>6
  <2>2. base \in V
    OBVIOUS
  <2> HIDE DEF op, G, V, base
  <2>3. PICK f \in [SUBSET G -> V] : Iterates(f, op, base, G)
    BY <1>5, <2>1, <2>2, IterationExists
  <2>4. \A s \in SUBSET G : s # {} => Pick(s) \in G /\ f[s \ {Pick(s)}] \in V
    BY PickIn
  <2>5. \A s \in SUBSET G : f[s] = IF s = {} THEN base ELSE AddGroup(Pick(s), f[s \ {Pick(s)}])
    BY <2>1, <2>3, <2>4 DEF Iterates
  <2>6. f = [s \in SUBSET G |-> f[s]]
    OBVIOUS
  <2> QED
    BY <2>5, <2>6
<1>8. \A s \in SUBSET G : iter[s] = IF s = {} THEN base ELSE AddGroup(Pick(s), iter[s \ {Pick(s)}])
  <2>1. IsIter(iter)
    <3> HIDE DEF IsIter
    <3> QED
      BY <1>7
  <2> HIDE DEF iter, G
  <2> QED
    BY <2>1
<1> DEFINE In(s) == {k \in TasksOf(p) : \E x \in s : x.status = task[k].status}
           Todo(s) == IF \E x \in s : x.status = "TODO" THEN Cardinality(With("TODO")) ELSE 0
           Q == [s \in SUBSET G |-> {v \in V : v.total = Cardinality(In(s)) /\ v.todo = Todo(s)}]
<1> HIDE DEF iter, V, G
<1>9. \A s \in SUBSET G : iter[s] \in Q[s]
  <2>1. iter[{}] \in Q[{}]
    <3>1. iter[{}] = base /\ In({}) = {}
      BY <1>8
    <3> QED
      BY <3>1, FS_EmptySet DEF V
  <2>2. ASSUME NEW s \in SUBSET G, s # {}, iter[s \ {Pick(s)}] \in Q[s \ {Pick(s)}]
        PROVE  iter[s] \in Q[s]
    <3> DEFINE x == Pick(s)
               u == s \ {x}
               v == iter[u]
    <3>1. x \in G /\ x \in s /\ u \in SUBSET G
      BY <2>2, PickIn
    <3>2. v \in V /\ v.total = Cardinality(In(u)) /\ v.todo = Todo(u)
      BY <2>2, <3>1
    <3>3. iter[s] = AddGroup(x, v)
      BY <1>8, <2>2
    <3> HIDE DEF x, v
    <3>4. x.count = Cardinality(With(x.status)) /\ x.count \in Nat
      BY <1>4, <3>1
    <3>5. \A y \in u : y.status # x.status
      BY <1>3, <3>1
    <3>6. In(s) = In(u) \cup With(x.status) /\ In(u) \cap With(x.status) = {}
      BY <3>1, <3>5
    <3>7. Cardinality(In(s)) = Cardinality(In(u)) + x.count
      <4>1. IsFiniteSet(In(u)) /\ IsFiniteSet(With(x.status)) /\ Cardinality(In(u)) \in Nat
        BY TasksOfFinite
      <4>2. Cardinality(In(s)) =
              Cardinality(In(u)) + Cardinality(With(x.status)) - Cardinality({})
        <5> HIDE DEF In, With, u
        <5> QED
          BY <3>6, <4>1, FS_Union
      <4> HIDE DEF In, With, u
      <4> QED
        BY <3>4, <4>1, <4>2, FS_EmptySet
    <3>8. Todo(s) = IF x.status = "TODO" THEN x.count ELSE Todo(u)
      <4>1. x.status # "TODO" =>
              ((\E y \in s : y.status = "TODO") <=> \E y \in u : y.status = "TODO")
        BY <3>1
      <4> HIDE DEF With
      <4> QED
        BY <3>1, <3>4, <4>1
    <3>9. iter[s] \in V /\ iter[s].total = Cardinality(In(s)) /\ iter[s].todo = Todo(s)
      <4> HIDE DEF In, Todo, u
      <4> QED
        BY <1>6, <3>1, <3>2, <3>3, <3>7, <3>8
    <3> HIDE DEF In, Todo
    <3> QED
      BY <3>9
  <2> HIDE DEF Q
  <2> QED
    BY <1>5, <2>1, <2>2, IterationKeeps
<1>10. iter[G].total = Cardinality(In(G)) /\ iter[G].todo = Todo(G)
  BY <1>9
<1>11. \A k \in TasksOf(p) : Group(task[k].status) \in G /\ Group(task[k].status).status = task[k].status
  BY DEF G, StatusGroups
<1>13. In(G) = TasksOf(p)
  <2> HIDE DEF Group
  <2> QED
    BY <1>11
<1>12. Todo(G) = Cardinality(With("TODO"))
  <2>1. (\A x \in G : x.status # "TODO") => With("TODO") = {}
    <3> HIDE DEF Group
    <3> QED
      BY <1>11
  <2> HIDE DEF With
  <2> QED
    BY <2>1, FS_EmptySet
<1> QED
  BY <1>1, <1>10, <1>12, <1>13


(* The views agree in every state where owners and assignees are members.    *)
LEMMA ViewsFollow ==
  ASSUME TypeOK, OwnersAreMembers, AssigneesParticipate
  PROVE  ViewsAgree
<1>1. ASSUME NEW p \in Projects, NEW u \in Users
      PROVE  p \in MyProjects(u) <=> Opens(u, p)
  BY <1>1, NoneAssumption DEF MyProjects, Opens, Manages, OwnersAreMembers
<1>2. ASSUME NEW p \in Projects, NEW u \in Users, NEW k \in TasksOf(p),
             NEW a \in task[k].assigned, a[2] = u
      PROVE  u \in members[p] /\ p \in JoinedProjects(u)
  BY <1>2 DEF AssigneesParticipate, TasksOf, JoinedProjects
<1>3. ASSUME NEW p \in Projects, NEW u \in Users
      PROVE  /\ Cardinality(MyTodo(u, p)) <= TaskCounts(p).todo
             /\ MyTodo(u, p) # {} => JoinedProject(u, p).tasks >= Cardinality(MyTodo(u, p))
  <2> DEFINE T == {k \in TasksOf(p) : task[k].status = "TODO"}
  <2>1. /\ MyTodo(u, p) \in SUBSET T /\ MyTodo(u, p) \in SUBSET TasksOf(p)
        /\ T \in SUBSET TasksOf(p) /\ TasksOf(p) \in SUBSET TasksOf(p)
    BY DEF MyTodo
  <2>2. /\ Cardinality(MyTodo(u, p)) <= Cardinality(T)
        /\ Cardinality(MyTodo(u, p)) <= Cardinality(TasksOf(p))
    <3> HIDE DEF T
    <3> QED
      BY <2>1, TasksOfFinite, FS_Subset
  <2>3. MyTodo(u, p) # {} => JoinedProject(u, p).tasks = Cardinality(TasksOf(p))
    BY <1>2 DEF MyTodo, JoinedProject, ProjectCounts
  <2>4. \A i, j \in Nat : i <= j => j >= i
    OBVIOUS
  <2> QED
    BY <2>1, <2>2, <2>3, <2>4, TaskCountsAddUp, TasksOfFinite
<1>4. ASSUME NEW k \in TaskIds, NEW u \in Users
      PROVE  ManagerFinds(u, k) <=> task[k] # None /\ task[k].project \in MyProjects(u)
  BY DEF ManagerFinds, MyProjects, TypeOK, TaskRow
<1>5. ASSUME NEW k \in TaskIds, NEW u \in Users, ParticipantFinds(u, k)
      PROVE  /\ task[k].project \in JoinedProjects(u)
             /\ task[k].status = "TODO" => k \in MyTodo(u, task[k].project)
  <2>1. task[k] # None /\ task[k].project \in Projects /\ k \in TasksOf(task[k].project)
    BY <1>5 DEF ParticipantFinds, TasksOf, TypeOK, TaskRow
  <2> QED
    BY <1>2, <1>5, <2>1 DEF ParticipantFinds, MyTodo
<1> QED
  BY <1>1, <1>3, <1>4, <1>5, TaskCountsAddUp DEF ViewsAgree, ProjectCounts

-----------------------------------------------------------------------------
(* The summary                                                               *)

(* The rows of the join, by the six tables joined. *)
Rows(I, T, P, K, M, X) ==
  [invitation : I, task : T, participation : P, stakeholder : K, team : M, transaction : X]

(* Joining tables multiplies their sizes.                                    *)
LEMMA RowsCount ==
  ASSUME NEW I, NEW T, NEW P, NEW K, NEW M, NEW X,
         IsFiniteSet(I), IsFiniteSet(T), IsFiniteSet(P), IsFiniteSet(K), IsFiniteSet(M),
         IsFiniteSet(X)
  PROVE  /\ IsFiniteSet(Rows(I, T, P, K, M, X))
         /\ Cardinality(Rows(I, T, P, K, M, X)) =
              Cardinality(I) * (Cardinality(T) * (Cardinality(P) *
                (Cardinality(K) * (Cardinality(M) * Cardinality(X)))))
<1> DEFINE MX == M \X X
           KX == K \X MX
           PX == P \X KX
           TX == T \X PX
           S == I \X TX
           row(d) == [invitation |-> d[1], task |-> d[2][1], participation |-> d[2][2][1],
                      stakeholder |-> d[2][2][2][1], team |-> d[2][2][2][2][1],
                      transaction |-> d[2][2][2][2][2]]
           f == [d \in S |-> row(d)]
<1>1. IsFiniteSet(S) /\ Cardinality(S) =
        Cardinality(I) * (Cardinality(T) * (Cardinality(P) *
          (Cardinality(K) * (Cardinality(M) * Cardinality(X)))))
  <2>1. IsFiniteSet(MX) /\ Cardinality(MX) = Cardinality(M) * Cardinality(X)
    BY FS_Product
  <2> HIDE DEF MX
  <2>2. IsFiniteSet(KX) /\ Cardinality(KX) = Cardinality(K) * Cardinality(MX)
    BY <2>1, FS_Product
  <2> HIDE DEF KX
  <2>3. IsFiniteSet(PX) /\ Cardinality(PX) = Cardinality(P) * Cardinality(KX)
    BY <2>2, FS_Product
  <2> HIDE DEF PX
  <2>4. IsFiniteSet(TX) /\ Cardinality(TX) = Cardinality(T) * Cardinality(PX)
    BY <2>3, FS_Product
  <2> HIDE DEF TX
  <2>5. IsFiniteSet(S) /\ Cardinality(S) = Cardinality(I) * Cardinality(TX)
    BY <2>4, FS_Product
  <2> HIDE DEF S
  <2> QED
    BY <2>1, <2>2, <2>3, <2>4, <2>5
<1>2. f \in [S -> Rows(I, T, P, K, M, X)]
  BY DEF Rows
<1>3. \A d, e \in S : f[d] = f[e] => d = e
  OBVIOUS
<1>4. ASSUME NEW r \in Rows(I, T, P, K, M, X) PROVE \E d \in S : f[d] = r
  <2> DEFINE d == <<r.invitation, <<r.task, <<r.participation, <<r.stakeholder,
                    <<r.team, r.transaction>>>>>>>>>>
  <2>1. d \in S
    BY DEF Rows
  <2>2. f[d] = r
    BY <2>1 DEF Rows
  <2> QED
    BY <2>1, <2>2
<1>5. f \in Bijection(S, Rows(I, T, P, K, M, X))
  <2> HIDE DEF f, S
  <2> QED
    BY <1>2, <1>3, <1>4 DEF Bijection, Injection, Surjection, IsInjective
<1>6. ExistsBijection(S, Rows(I, T, P, K, M, X))
  BY <1>5 DEF ExistsBijection
<1> HIDE DEF S
<1> QED
  BY <1>1, <1>6, FS_Bijection

(* How many rows a table contributes to the join. *)
Many(S) == IF S = {} THEN 1 ELSE Cardinality(S)

(* A table joined from the left gives a row more only when it is empty.      *)
LEMMA LeftJoinCount ==
  ASSUME NEW S, IsFiniteSet(S), None \notin S
  PROVE  /\ IsFiniteSet(LeftJoin(S)) /\ Cardinality(LeftJoin(S)) = Many(S)
         /\ LeftJoin(S) \ {None} = S
         /\ Many(S) \in Nat /\ Cardinality(S) \in Nat
  BY FS_Singleton, FS_CardinalityType DEF LeftJoin, Many

(* The products of the sizes, in the order ProjectSummary's meaning has them. *)
LEMMA Products ==
  ASSUME NEW a \in Nat, NEW b \in Nat, NEW c \in Nat, NEW d \in Nat
  PROVE  /\ a * (b * (1 * (1 * (c * d)))) = a * b * c * d
         /\ a * (b * (1 * (1 * (c * d)))) = b * a * c * d
         /\ a * (b * (1 * (1 * (c * d)))) = c * a * b * d
         /\ a * (b * (1 * (1 * (c * d)))) = d * a * b * c
         /\ a * (b * (1 * (0 * (c * d)))) = 0
         /\ a * (b * (1 * (1 * (c * 1)))) = a * b * c
  OBVIOUS

(* Summing the amounts over the joined rows counts each as often as it was   *)
(* joined.                                                                   *)
LEMMA SumOverRows ==
  ASSUME NEW I, NEW T, NEW P, NEW K, NEW M, NEW W,
         IsFiniteSet(I), IsFiniteSet(T), IsFiniteSet(P), IsFiniteSet(K), IsFiniteSet(M),
         IsFiniteSet(W), NEW g \in [W -> Nat], NEW S \in SUBSET W,
         NEW f \in [Rows(I, T, P, K, M, S) -> Nat],
         \A row \in Rows(I, T, P, K, M, S) : f[row] = g[row.transaction]
  PROVE  SumFunctionOnSet(f, Rows(I, T, P, K, M, S)) =
           SumFunctionOnSet(g, S) *
             (Cardinality(I) * (Cardinality(T) * (Cardinality(P) *
                (Cardinality(K) * (Cardinality(M) * 1)))))
<1> DEFINE R(X) == Rows(I, T, P, K, M, X)
           n == Cardinality(I) * (Cardinality(T) * (Cardinality(P) *
                  (Cardinality(K) * (Cardinality(M) * 1))))
           C == {X \in SUBSET S : SumFunctionOnSet(f, R(X)) = SumFunctionOnSet(g, X) * n}
<1>1. ASSUME NEW X \in SUBSET S PROVE IsFiniteSet(X) /\ IsFiniteSet(R(X)) /\ R(X) \in SUBSET R(S)
  <2>1. IsFiniteSet(X)
    BY FS_Subset
  <2>2. IsFiniteSet(R(X))
    BY <2>1, RowsCount
  <2>3. R(X) \in SUBSET R(S)
    BY DEF Rows
  <2> QED
    BY <2>1, <2>2, <2>3
<1>2. ASSUME NEW x \in S PROVE IsFiniteSet(R({x})) /\ Cardinality(R({x})) = n
  <2>1. IsFiniteSet({x}) /\ Cardinality({x}) = 1
    BY FS_Singleton
  <2> QED
    BY <2>1, RowsCount
<1>3. n \in Nat
  <2>1. /\ Cardinality(I) \in Nat /\ Cardinality(T) \in Nat /\ Cardinality(P) \in Nat
        /\ Cardinality(K) \in Nat /\ Cardinality(M) \in Nat
    BY FS_CardinalityType
  <2> QED
    BY <2>1
<1> HIDE DEF n
<1>4. {} \in C
  <2>1. R({}) = {}
    BY DEF Rows
  <2>2. SumFunctionOnSet(f, {}) = 0 /\ SumFunctionOnSet(g, {}) = 0
    BY SumOnEmpty
  <2>3. SumFunctionOnSet(f, R({})) = 0
    BY <2>1, <2>2
  <2>4. 0 * n = 0
    BY <1>3
  <2> HIDE DEF R
  <2> QED
    BY <2>2, <2>3, <2>4
<1>5. ASSUME NEW X \in SUBSET S, NEW x \in S \ X, X \in C PROVE X \cup {x} \in C
  <2>1. R(X \cup {x}) = R(X) \cup R({x}) /\ R(X) \cap R({x}) = {} /\ R({x}) \in SUBSET R(S)
    BY DEF Rows
  <2>2. \A row \in R({x}) : f[row] = g[x]
    <3>1. \A row \in R({x}) : row.transaction = x
      BY DEF Rows
    <3> HIDE DEF R
    <3> QED
      BY <2>1, <3>1 DEF R
  <2>3. x \in W /\ g[x] \in Nat /\ X \cup {x} \in SUBSET S /\ IsFiniteSet(X \cup {x})
    BY <1>1
  <2> HIDE DEF R
  <2>4. f \in [R(S) -> Nat]
    BY DEF R
  <2>5. SumFunctionOnSet(f, R({x})) = g[x] * n
    <3>1. IsFiniteSet(R({x})) /\ Cardinality(R({x})) = n
      BY <1>2
    <3> DEFINE D == R(S)
               B == R({x})
               m == g[x]
    <3>2. B \in SUBSET D /\ f \in [D -> Nat] /\ m \in Nat /\ \A row \in B : f[row] = m
      BY <2>1, <2>2, <2>3, <2>4
    <3> HIDE DEF B, D, m
    <3>3. SumFunctionOnSet(f, B) = m * Cardinality(B)
      BY <3>1, <3>2, SumOfConstant DEF B
    <3> QED
      BY <3>1, <3>3 DEF B, m
  <2>6. SumFunctionOnSet(f, R(X \cup {x})) =
          SumFunctionOnSet(f, R(X)) + SumFunctionOnSet(f, R({x}))
    <3> DEFINE D == R(S)
               A == R(X)
               B == R({x})
    <3>1. A \in SUBSET D /\ B \in SUBSET D /\ IsFiniteSet(A) /\ IsFiniteSet(B) /\ A \cap B = {}
      BY <1>1, <1>2, <2>1
    <3>2. f \in [D -> Nat]
      BY <2>4
    <3> HIDE DEF A, B, D
    <3>3. SumFunctionOnSet(f, A \cup B) = SumFunctionOnSet(f, A) + SumFunctionOnSet(f, B)
      BY <3>1, <3>2, SumOnUnion
    <3> QED
      BY <2>1, <3>3 DEF A, B
  <2>7. /\ SumFunctionOnSet(g, X \cup {x}) = g[x] + SumFunctionOnSet(g, X)
        /\ SumFunctionOnSet(g, X) \in Nat
    <3>1. (X \cup {x}) \ {x} = X /\ X \cup {x} \in SUBSET W
      OBVIOUS
    <3> QED
      BY <2>3, <3>1, SumOnRest
  <2>8. SumFunctionOnSet(f, R(X)) = SumFunctionOnSet(g, X) * n
    BY <1>5
  <2>9. \A a, b \in Nat : b * n + a * n = (a + b) * n
    BY <1>3
  <2>10. SumFunctionOnSet(f, R(X \cup {x})) = SumFunctionOnSet(g, X \cup {x}) * n
    BY <2>3, <2>5, <2>6, <2>7, <2>8, <2>9
  <2> QED
    BY <2>3, <2>10
<1>6. S \in C
  <2>1. IsFiniteSet(S)
    BY FS_Subset
  <2> HIDE DEF C
  <2> QED
    BY <1>4, <1>5, <2>1, SetInduction
<1> QED
  BY <1>6 DEF n

(* The four tables that vary, and what joining them adds.                    *)
LEMMA JoinedTables ==
  ASSUME TypeOK, TablesFinite, NEW p \in Projects, NEW W \in Wallets
  PROVE  \A S \in {invited[p], TasksOf(p), TeamsOf(p), W} :
           /\ IsFiniteSet(S) /\ None \notin S
           /\ IsFiniteSet(LeftJoin(S)) /\ Cardinality(LeftJoin(S)) = Many(S)
           /\ LeftJoin(S) \ {None} = S
           /\ Many(S) \in Nat /\ Cardinality(S) \in Nat
<1>1. IsFiniteSet(invited[p]) /\ None \notin invited[p]
  BY NoneAssumption DEF TablesFinite, TypeOK
<1>2. IsFiniteSet(TeamsOf(p)) /\ None \notin TeamsOf(p)
  BY NoneIsNoRow DEF TablesFinite, TeamsOf
<1>3. IsFiniteSet(TasksOf(p)) /\ None \notin TasksOf(p)
  BY TasksOfFinite, NoneIsNoRow DEF TasksOf
<1>4. IsFiniteSet(W) /\ None \notin W
  BY WalletsAssumption, NoneIsNoRow
<1> QED
  BY <1>1, <1>2, <1>3, <1>4, LeftJoinCount

(* A member reads every figure scaled by the other tables.                   *)
LEMMA SummaryOfMember ==
  ASSUME TypeOK, TablesFinite, NEW p \in Projects, NEW W \in Wallets, NEW u \in members[p]
  PROVE  LET s == ProjectSummary(u, p, W)
             i == Many(invited[p])   t == Many(TasksOf(p))
             m == Many(TeamsOf(p))   w == Many(W)
         IN  /\ s.invitations = Cardinality(invited[p]) * t * m * w
             /\ s.tasks = Cardinality(TasksOf(p)) * i * m * w
             /\ s.todoTasks = TaskCounts(p).todo * i * m * w
             /\ s.participations = i * t * m * w
             /\ s.stakeholders = 0
             /\ s.teams = Cardinality(TeamsOf(p)) * i * t * w
             /\ s.transactions = Cardinality(W) * i * t * m
             /\ s.totalCredits =
                  SumFunction([x \in W |-> IF x.credit THEN x.amount ELSE 0]) * i * t * m
<1> DEFINE s == ProjectSummary(u, p, W)
           i == Many(invited[p])
           t == Many(TasksOf(p))
           m == Many(TeamsOf(p))
           w == Many(W)
           I == LeftJoin(invited[p])
           T == LeftJoin(TasksOf(p))
           M == LeftJoin(TeamsOf(p))
           X == LeftJoin(W)
           N == {None}
           U == {u}
           Todo == {k \in TasksOf(p) : task[k].status = "TODO"}
           rows == Rows(I, T, U, N, M, X)
<1>1. JoinedRows(u, p, W) = rows
  BY DEF JoinedRows, Rows, LeftJoin
<1>2. /\ IsFiniteSet(I) /\ IsFiniteSet(T) /\ IsFiniteSet(M) /\ IsFiniteSet(X)
      /\ Cardinality(I) = i /\ Cardinality(T) = t /\ Cardinality(M) = m /\ Cardinality(X) = w
      /\ i \in Nat /\ t \in Nat /\ m \in Nat /\ w \in Nat
  BY JoinedTables
<1>3. /\ I \ {None} = invited[p] /\ T \ {None} = TasksOf(p)
      /\ M \ {None} = TeamsOf(p) /\ X \ {None} = W
  BY JoinedTables
<1>4. /\ IsFiniteSet(invited[p]) /\ IsFiniteSet(TasksOf(p)) /\ IsFiniteSet(TeamsOf(p))
      /\ IsFiniteSet(W) /\ Cardinality(invited[p]) \in Nat /\ Cardinality(TasksOf(p)) \in Nat
      /\ Cardinality(TeamsOf(p)) \in Nat /\ Cardinality(W) \in Nat
  BY JoinedTables
<1>5. /\ IsFiniteSet(N) /\ Cardinality(N) = 1 /\ IsFiniteSet(U) /\ Cardinality(U) = 1
      /\ IsFiniteSet({}) /\ Cardinality({}) = 0
  BY FS_Singleton, FS_EmptySet
<1>6. IsFiniteSet(Todo) /\ Cardinality(Todo) \in Nat /\ Cardinality(Todo) = TaskCounts(p).todo
  BY TasksOfFinite, TaskCountsAddUp
<1>7. u # None
  BY NoneAssumption DEF TypeOK
<1>8. s = [invitations |-> CountColumn(rows, "invitation"),
           tasks |-> CountColumn(rows, "task"),
           todoTasks |-> CountColumn(
             {row \in rows : row.task # None /\ task[row.task].status = "TODO"}, "task"),
           participations |-> CountColumn(rows, "participation"),
           stakeholders |-> CountColumn(rows, "stakeholder"),
           teams |-> CountColumn(rows, "team"),
           transactions |-> CountColumn(rows, "transaction"),
           totalCredits |-> SumFunction(
             [row \in {row \in rows : row.transaction # None /\ row.transaction.credit} |->
                row.transaction.amount])]
  BY <1>1 DEF ProjectSummary
<1>9. CountColumn(rows, "invitation") = Cardinality(Rows(invited[p], T, U, N, M, X))
  <2>1. {row \in rows : row["invitation"] # None} = Rows(invited[p], T, U, N, M, X)
    BY <1>3, <1>7 DEF Rows
  <2> QED
    BY <2>1 DEF CountColumn
<1>10. CountColumn(rows, "task") = Cardinality(Rows(I, TasksOf(p), U, N, M, X))
  <2>1. {row \in rows : row["task"] # None} = Rows(I, TasksOf(p), U, N, M, X)
    BY <1>3, <1>7 DEF Rows
  <2> QED
    BY <2>1 DEF CountColumn
<1>11. CountColumn({row \in rows : row.task # None /\ task[row.task].status = "TODO"}, "task")
          = Cardinality(Rows(I, Todo, U, N, M, X))
  <2> DEFINE some == {row \in rows : row.task # None /\ task[row.task].status = "TODO"}
  <2>1. \A k \in T : k # None /\ task[k].status = "TODO" <=> k \in Todo
    BY <1>3
  <2>2. Todo \subseteq T
    BY <1>3
  <2>3. {row \in some : row["task"] # None} = Rows(I, Todo, U, N, M, X)
    <3>1. \A row \in rows : row.task \in T
      BY DEF Rows
    <3> HIDE DEF Todo, T
    <3> QED
      BY <2>1, <2>2, <3>1 DEF Rows
  <2> QED
    BY <2>3 DEF CountColumn
<1>12. CountColumn(rows, "participation") = Cardinality(Rows(I, T, U, N, M, X))
  <2>1. {row \in rows : row["participation"] # None} = Rows(I, T, U, N, M, X)
    BY <1>3, <1>7 DEF Rows
  <2> QED
    BY <2>1 DEF CountColumn
<1>13. CountColumn(rows, "stakeholder") = Cardinality(Rows(I, T, U, {}, M, X))
  <2>1. {row \in rows : row["stakeholder"] # None} = Rows(I, T, U, {}, M, X)
    BY <1>3, <1>7 DEF Rows
  <2> QED
    BY <2>1 DEF CountColumn
<1>14. CountColumn(rows, "team") = Cardinality(Rows(I, T, U, N, TeamsOf(p), X))
  <2>1. {row \in rows : row["team"] # None} = Rows(I, T, U, N, TeamsOf(p), X)
    BY <1>3, <1>7 DEF Rows
  <2> QED
    BY <2>1 DEF CountColumn
<1>15. CountColumn(rows, "transaction") = Cardinality(Rows(I, T, U, N, M, W))
  <2>1. {row \in rows : row["transaction"] # None} = Rows(I, T, U, N, M, W)
    BY <1>3, <1>7 DEF Rows
  <2> QED
    BY <2>1 DEF CountColumn
<1>16. SumFunction([row \in {row \in rows : row.transaction # None /\ row.transaction.credit} |->
                      row.transaction.amount]) =
         SumFunction([x \in W |-> IF x.credit THEN x.amount ELSE 0]) * i * t * m
  <2> DEFINE S == {x \in W : x.credit}
             R == Rows(I, T, U, N, M, S)
             f == [row \in R |-> row.transaction.amount]
             g == [x \in W |-> IF x.credit THEN x.amount ELSE 0]
  <2>1. {row \in rows : row.transaction # None /\ row.transaction.credit} = R
    <3>1. \A x \in X : x # None /\ x.credit <=> x \in S
      BY <1>3
    <3>2. S \subseteq X
      BY <1>3
    <3> HIDE DEF S, X
    <3> QED
      BY <3>1, <3>2 DEF Rows
  <2>2. \A x \in W : x.credit \in BOOLEAN /\ x.amount \in Nat
    BY WalletsAssumption DEF Transaction
  <2>3. \A row \in R : row.transaction \in S
    BY DEF Rows
  <2>4. g \in [W -> Nat] /\ \A x \in S : g[x] = x.amount
    BY <2>2
  <2>5. \A x \in W \ S : g[x] = 0
    BY <2>2
  <2>6. f \in [R -> Nat] /\ \A row \in R : f[row] = g[row.transaction]
    <3> HIDE DEF R, g
    <3> QED
      BY <2>2, <2>3, <2>4
  <2>7. IsFiniteSet(S) /\ IsFiniteSet(W \ S)
    BY <1>4, FS_Subset
  <2> DEFINE sum == SumFunctionOnSet(g, S)
  <2>8. SumFunctionOnSet(f, R) = sum * (i * (t * (1 * (1 * (m * 1)))))
    <3>1. S \in SUBSET W
      OBVIOUS
    <3> HIDE DEF g, f, S, I, T, U, N, M, i, t, m
    <3>2. SumFunctionOnSet(f, R) =
            sum * (Cardinality(I) * (Cardinality(T) * (Cardinality(U) *
                     (Cardinality(N) * (Cardinality(M) * 1)))))
      BY <1>2, <1>4, <1>5, <2>4, <2>6, <3>1, SumOverRows
    <3> QED
      BY <1>2, <1>5, <3>2
  <2>9. SumFunctionOnSet(g, W) = sum /\ sum \in Nat
    <3> DEFINE Rest == W \ S
    <3>1. S \in SUBSET W /\ Rest \in SUBSET W /\ S \cap Rest = {} /\ S \cup Rest = W
      OBVIOUS
    <3>2. IsFiniteSet(S) /\ IsFiniteSet(Rest) /\ Cardinality(Rest) \in Nat
      BY <2>7, FS_CardinalityType
    <3>3. \A x \in Rest : g[x] = 0
      BY <2>5
    <3> HIDE DEF g, S, Rest
    <3>4. SumFunctionOnSet(g, Rest) = 0 * Cardinality(Rest)
      BY <2>4, <3>1, <3>2, <3>3, SumOfConstant
    <3>5. SumFunctionOnSet(g, S \cup Rest) =
            SumFunctionOnSet(g, S) + SumFunctionOnSet(g, Rest)
      BY <2>4, <3>1, <3>2, SumOnUnion
    <3>6. SumFunctionOnSet(g, S) \in Nat
      BY <2>4, <3>1, <3>2, SumIterates
    <3>7. 0 * Cardinality(Rest) = 0
      BY <3>2
    <3>8. SumFunctionOnSet(g, W) = SumFunctionOnSet(g, S) + 0
      BY <3>1, <3>4, <3>5, <3>7, Zenon
    <3> QED
      BY <3>6, <3>8
  <2>10. SumFunction(f) = SumFunctionOnSet(f, R) /\ SumFunction(g) = SumFunctionOnSet(g, W)
    BY DEF SumFunction
  <2>11. \A n \in Nat : n * (i * (t * (1 * (1 * (m * 1))))) = n * i * t * m
    <3> HIDE DEF i, t, m
    <3> QED
      BY <1>2
  <2>12. SumFunction(f) = SumFunction(g) * i * t * m
    <3> HIDE DEF f, g, i, t, m, R, S, sum
    <3> QED
      BY <2>8, <2>9, <2>10, <2>11
  <2> QED
    BY <2>1, <2>12
<1> HIDE DEF s, i, t, m, w, I, T, M, X, N, U, Todo, rows
<1>17. /\ s.invitations = Cardinality(invited[p]) * t * m * w
       /\ s.tasks = Cardinality(TasksOf(p)) * i * m * w
       /\ s.todoTasks = TaskCounts(p).todo * i * m * w
       /\ s.participations = i * t * m * w
       /\ s.stakeholders = 0
       /\ s.teams = Cardinality(TeamsOf(p)) * i * t * w
       /\ s.transactions = Cardinality(W) * i * t * m
  <2>1. s.invitations = Cardinality(invited[p]) * (t * (1 * (1 * (m * w))))
    BY <1>2, <1>4, <1>5, <1>8, <1>9, RowsCount
  <2>2. s.tasks = i * (Cardinality(TasksOf(p)) * (1 * (1 * (m * w))))
    BY <1>2, <1>4, <1>5, <1>8, <1>10, RowsCount
  <2>3. s.todoTasks = i * (TaskCounts(p).todo * (1 * (1 * (m * w))))
    BY <1>2, <1>5, <1>6, <1>8, <1>11, RowsCount
  <2>4. s.participations = i * (t * (1 * (1 * (m * w))))
    BY <1>2, <1>5, <1>8, <1>12, RowsCount
  <2>5. s.stakeholders = i * (t * (1 * (0 * (m * w))))
    BY <1>2, <1>5, <1>8, <1>13, RowsCount
  <2>6. s.teams = i * (t * (1 * (1 * (Cardinality(TeamsOf(p)) * w))))
    BY <1>2, <1>4, <1>5, <1>8, <1>14, RowsCount
  <2>7. s.transactions = i * (t * (1 * (1 * (m * Cardinality(W)))))
    BY <1>2, <1>4, <1>5, <1>8, <1>15, RowsCount
  <2> QED
    BY <2>1, <2>2, <2>3, <2>4, <2>5, <2>6, <2>7, <1>2, <1>4, <1>6, Products
<1>18. s.totalCredits = SumFunction([x \in W |-> IF x.credit THEN x.amount ELSE 0]) * i * t * m
  BY <1>8, <1>16
<1> QED
  BY <1>17, <1>18 DEF s, i, t, m, w

(* Somebody outside the project joins no row.                                *)
LEMMA SummaryOfOutsider ==
  ASSUME NEW p \in Projects, NEW W, NEW u, u \notin members[p]
  PROVE  LET s == ProjectSummary(u, p, W) IN \A column \in DOMAIN s : s[column] = 0
<1>1. JoinedRows(u, p, W) = {}
  BY DEF JoinedRows
<1>2. \A column : CountColumn({}, column) = 0
  BY FS_EmptySet DEF CountColumn
<1> DEFINE f == [row \in {} |-> row.transaction.amount]
<1>3. SumFunction(f) = 0
  <2>1. f \in [{} -> Nat] /\ DOMAIN f = {}
    OBVIOUS
  <2> HIDE DEF f
  <2> QED
    BY <2>1, SumOnEmpty DEF SumFunction
<1>4. ProjectSummary(u, p, W) =
        [invitations |-> 0, tasks |-> 0, todoTasks |-> 0, participations |-> 0,
         stakeholders |-> 0, teams |-> 0, transactions |-> 0, totalCredits |-> 0]
  <2>1. {row \in {} : row.task # None /\ task[row.task].status = "TODO"} = {}
    OBVIOUS
  <2>2. {row \in {} : row.transaction # None /\ row.transaction.credit} = {}
    OBVIOUS
  <2> QED
    BY <1>1, <1>2, <1>3, <2>1, <2>2 DEF ProjectSummary
<1> QED
  BY <1>4

(* What the amounts of a wallet's credits add up to is a number.             *)
LEMMA CreditsAddUp ==
  ASSUME NEW W \in Wallets
  PROVE  SumFunction([x \in W |-> IF x.credit THEN x.amount ELSE 0]) \in Nat
<1> DEFINE g == [x \in W |-> IF x.credit THEN x.amount ELSE 0]
<1>1. IsFiniteSet(W) /\ g \in [W -> Nat] /\ DOMAIN g = W
  BY WalletsAssumption DEF Transaction
<1> HIDE DEF g
<1>2. ASSUME W = {}
      PROVE  SumFunction(g) \in Nat
  <2>1. SumFunctionOnSet(g, {}) = 0
    BY <1>1, SumOnEmpty
  <2> QED
    BY <1>1, <1>2, <2>1 DEF SumFunction
<1>3. ASSUME NEW x \in W
      PROVE  SumFunction(g) \in Nat
  <2>1. SumFunctionOnSet(g, W) \in Nat
    BY <1>1, <1>3, SumOnRest
  <2> QED
    BY <1>1, <2>1 DEF SumFunction
<1>4. SumFunction(g) \in Nat
  BY <1>2, <1>3
<1> QED
  BY <1>4 DEF g

(* What the figures are, in every state with finite tables.                  *)
LEMMA FiguresFollow ==
  ASSUME TypeOK, TablesFinite
  PROVE  FiguresAreMultiplied
<1>1. ASSUME NEW p \in Projects, NEW W \in Wallets, NEW u \in Users, u \notin members[p]
      PROVE  LET s == ProjectSummary(u, p, W) IN \A column \in DOMAIN s : s[column] = 0
  BY <1>1, SummaryOfOutsider
<1> QED
  BY <1>1, SummaryOfMember DEF FiguresAreMultiplied, Many

(* A figure that is multiplied by ones only is the true one.                 *)
LEMMA LoneTableFollows ==
  ASSUME TypeOK, TablesFinite
  PROVE  LoneTableIsCounted
<1>1. ASSUME NEW p \in Projects, NEW W \in Wallets, NEW u \in Users, u \notin members[p]
      PROVE  LET s == ProjectSummary(u, p, W) IN \A column \in DOMAIN s : s[column] = 0
  BY <1>1, SummaryOfOutsider
<1>2. ASSUME NEW S, IsFiniteSet(S), AtMostOne(S)
      PROVE  Many(S) = 1
  BY <1>2, FS_CardinalityType, FS_EmptySet DEF AtMostOne, Many
<1>3. ASSUME NEW p \in Projects, NEW W \in Wallets, NEW u \in members[p]
      PROVE  LET s == ProjectSummary(u, p, W)
                 i == AtMostOne(invited[p])   t == AtMostOne(TasksOf(p))
                 m == AtMostOne(TeamsOf(p))   w == AtMostOne(W)
             IN  /\ t /\ m /\ w => s.invitations = Cardinality(invited[p])
                 /\ i /\ m /\ w =>
                      /\ s.tasks = Cardinality(TasksOf(p))
                      /\ s.todoTasks = TaskCounts(p).todo
                 /\ i /\ t /\ m /\ w /\ members[p] = {u} => s.participations = 1
                 /\ i /\ t /\ w => s.teams = Cardinality(TeamsOf(p))
                 /\ i /\ t /\ m =>
                      /\ s.transactions = Cardinality(W)
                      /\ s.totalCredits =
                           SumFunction([x \in W |-> IF x.credit THEN x.amount ELSE 0])
  <2> DEFINE s == ProjectSummary(u, p, W)
             i == Many(invited[p])
             t == Many(TasksOf(p))
             m == Many(TeamsOf(p))
             w == Many(W)
             credits == SumFunction([x \in W |-> IF x.credit THEN x.amount ELSE 0])
             todo == TaskCounts(p).todo
  <2>1. /\ IsFiniteSet(invited[p]) /\ IsFiniteSet(TasksOf(p)) /\ IsFiniteSet(TeamsOf(p))
        /\ IsFiniteSet(W) /\ Cardinality(invited[p]) \in Nat /\ Cardinality(TasksOf(p)) \in Nat
        /\ Cardinality(TeamsOf(p)) \in Nat /\ Cardinality(W) \in Nat
    BY JoinedTables
  <2>2. /\ AtMostOne(invited[p]) => i = 1
        /\ AtMostOne(TasksOf(p)) => t = 1
        /\ AtMostOne(TeamsOf(p)) => m = 1
        /\ AtMostOne(W) => w = 1
    BY <1>2, <2>1
  <2>3. credits \in Nat
    BY CreditsAddUp
  <2>4. todo \in Nat
    BY TasksOfFinite, TaskCountsAddUp
  <2>5. /\ s.invitations = Cardinality(invited[p]) * t * m * w
        /\ s.tasks = Cardinality(TasksOf(p)) * i * m * w
        /\ s.todoTasks = todo * i * m * w
        /\ s.participations = i * t * m * w
        /\ s.teams = Cardinality(TeamsOf(p)) * i * t * w
        /\ s.transactions = Cardinality(W) * i * t * m
        /\ s.totalCredits = credits * i * t * m
    BY <1>3, SummaryOfMember
  <2> HIDE DEF s, i, t, m, w, credits, todo
  <2>6. /\ t = 1 /\ m = 1 /\ w = 1 => s.invitations = Cardinality(invited[p])
        /\ i = 1 /\ m = 1 /\ w = 1 => s.tasks = Cardinality(TasksOf(p)) /\ s.todoTasks = todo
        /\ i = 1 /\ t = 1 /\ m = 1 /\ w = 1 => s.participations = 1
        /\ i = 1 /\ t = 1 /\ w = 1 => s.teams = Cardinality(TeamsOf(p))
        /\ i = 1 /\ t = 1 /\ m = 1 => s.transactions = Cardinality(W) /\ s.totalCredits = credits
    BY <2>1, <2>3, <2>4, <2>5
  <2>7. /\ AtMostOne(TasksOf(p)) /\ AtMostOne(TeamsOf(p)) /\ AtMostOne(W) =>
             s.invitations = Cardinality(invited[p])
        /\ AtMostOne(invited[p]) /\ AtMostOne(TeamsOf(p)) /\ AtMostOne(W) =>
             s.tasks = Cardinality(TasksOf(p)) /\ s.todoTasks = todo
        /\ AtMostOne(invited[p]) /\ AtMostOne(TasksOf(p)) /\ AtMostOne(TeamsOf(p))
             /\ AtMostOne(W) => s.participations = 1
        /\ AtMostOne(invited[p]) /\ AtMostOne(TasksOf(p)) /\ AtMostOne(W) =>
             s.teams = Cardinality(TeamsOf(p))
        /\ AtMostOne(invited[p]) /\ AtMostOne(TasksOf(p)) /\ AtMostOne(TeamsOf(p)) =>
             s.transactions = Cardinality(W) /\ s.totalCredits = credits
    BY <2>2, <2>6
  <2> QED
    BY <2>7 DEF s, credits, todo
<1> QED
  BY <1>1, <1>3 DEF LoneTableIsCounted

-----------------------------------------------------------------------------
(* No project has members, invitations or teams to begin with.               *)
LEMMA TablesFiniteInit == Init => TablesFinite
<1> SUFFICES ASSUME Init, NEW p \in Projects
             PROVE  /\ IsFiniteSet(invited[p]) /\ IsFiniteSet(members[p])
                    /\ IsFiniteSet(TeamsOf(p))
  BY DEF TablesFinite
<1>1. invited[p] = {} /\ members[p] = {}
  BY DEF Init, Ledger!Init
<1>2. TeamsOf(p) = {}
  BY NoneAssumption DEF Init, TeamsOf
<1> QED
  BY <1>1, <1>2, FS_EmptySet

(* A step adds at most one row to each of the tables the summary joins.      *)
LEMMA OneRowAtATime ==
  ASSUME TypeOK, [Next]_vars, NEW p \in Projects
  PROVE  \E u, t :
           /\ invited'[p] \subseteq invited[p] \cup {u}
           /\ members'[p] \subseteq members[p] \cup {u}
           /\ TeamsOf(p)' \subseteq TeamsOf(p) \cup {t}
<1>1. CASE ProjectStep
  <2>1. UNCHANGED teamOf
    BY <1>1 DEF ProjectStep, taskTables
  <2>2. TeamsOf(p)' = TeamsOf(p)
    BY <2>1 DEF TeamsOf
  <2>3. PICK q \in Projects, u \in Users :
          /\ invited' = invited \/ invited' = [invited EXCEPT ![q] = @ \cup {u}]
          /\ \/ members' = members
             \/ members' = [members EXCEPT ![q] = {u}]
             \/ members' = [members EXCEPT ![q] = @ \cup {u}]
    BY <1>1, LedgerStep
  <2>4. /\ invited'[p] \subseteq invited[p] \cup {u}
        /\ members'[p] \subseteq members[p] \cup {u}
    BY <2>3 DEF TypeOK
  <2> QED
    BY <2>2, <2>4
<1>2. ASSUME NEW t \in TeamIds, NEW q \in Projects, CreateTeam(t, q)
      PROVE  /\ invited' = invited /\ members' = members
             /\ TeamsOf(p)' \subseteq TeamsOf(p) \cup {t}
  BY <1>2 DEF CreateTeam, projectTables, TeamsOf, TypeOK
<1>3. CASE UNCHANGED <<projectTables, teamOf>>
  BY <1>3 DEF projectTables, TeamsOf
<1> QED
  BY <1>1, <1>2, <1>3 DEF Next, Arrive, Advance, CreateTask, SubmitTask, OpenListing,
     CreateTaskCommit, SubmitTaskCommit, TurnPage, CountPages, Fail, taskTables,
     projectTables, vars

LEMMA TablesFiniteStep ==
  ASSUME TypeOK, TablesFinite, [Next]_vars
  PROVE  TablesFinite'
<1> SUFFICES ASSUME NEW p \in Projects
             PROVE  /\ IsFiniteSet(invited'[p]) /\ IsFiniteSet(members'[p])
                    /\ IsFiniteSet(TeamsOf(p)')
  BY DEF TablesFinite
<1>1. PICK u, t : /\ invited'[p] \subseteq invited[p] \cup {u}
                  /\ members'[p] \subseteq members[p] \cup {u}
                  /\ TeamsOf(p)' \subseteq TeamsOf(p) \cup {t}
  BY OneRowAtATime
<1>2. ASSUME NEW S, IsFiniteSet(S), NEW x, NEW R, R \subseteq S \cup {x}
      PROVE  IsFiniteSet(R)
  BY <1>2, FS_AddElement, FS_Subset
<1>3. IsFiniteSet(invited[p]) /\ IsFiniteSet(members[p]) /\ IsFiniteSet(TeamsOf(p))
  BY DEF TablesFinite
<1> QED
  BY <1>1, <1>2, <1>3

(* Invitations, participations and teams of a project stay finite in number, *)
(* whatever the sets they are drawn from.                                    *)
THEOREM TablesAlwaysFinite == Spec => []TablesFinite
BY TablesFiniteInit, TablesFiniteStep, TypeCorrect, PTL DEF Spec

(* However many tasks, members and teams there are, what a manager opens,    *)
(* finds and is told in numbers fits together, and so for a participant.     *)
THEOREM ViewsAlwaysAgree == Spec => []ViewsAgree
<1>1. TypeOK /\ Inductive => ViewsAgree
  BY ViewsFollow DEF Inductive
<1> QED
  BY <1>1, TypeCorrect, TasksConsistent, PTL

(* A figure of getProjectSummary is the true one for tables and wallets of   *)
(* any size, as long as no other joined table has two rows.                  *)
THEOREM LoneTableIsAlwaysCounted == Spec => []LoneTableIsCounted
<1>1. TypeOK /\ TablesFinite => LoneTableIsCounted
  BY LoneTableFollows
<1> QED
  BY <1>1, TypeCorrect, TablesAlwaysFinite, PTL

(* Otherwise it is multiplied by the sizes of the other joined tables.       *)
THEOREM FiguresAreAlwaysMultiplied == Spec => []FiguresAreMultiplied
<1>1. TypeOK /\ TablesFinite => FiguresAreMultiplied
  BY FiguresFollow
<1> QED
  BY <1>1, TypeCorrect, TablesAlwaysFinite, PTL
=============================================================================
