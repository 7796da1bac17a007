------------------------------ MODULE MCTasks ------------------------------
(* Tasks on small sets.  Users, projects, teams and requests are             *)
(* interchangeable.  Managers ask for tasks to do for two people, group and  *)
(* individual, and for a finished task of a team and one person.             *)
EXTENDS ProjectViews, TLC

Asked ==
  {row \in TaskRow :
     \/ Cardinality(row.assigned) = 2 /\ row.teams = {} /\ row.status = "TODO"
     \/ /\ Cardinality(row.assigned) = 1 /\ row.teams # {}
        /\ row.type = "GROUP" /\ row.status = "DONE"}

Sent ==
  [user : Users, status : {None}, sortOrder : {"asc"}]
    \cup [user : Users, status : {"TODO"}, sortOrder : {"desc"}]

Booked ==
  {{}, {[id |-> 1, credit |-> TRUE, amount |-> 3], [id |-> 2, credit |-> FALSE, amount |-> 2]}}

Symmetry ==
  Permutations(Users) \cup Permutations(Projects) \cup Permutations(TeamIds)
    \cup Permutations(Requests)
=============================================================================
