------------------------------ MODULE MCTeams ------------------------------
(* Teams on small sets.  Users, project ids, team ids, names and requests in *)
(* flight are interchangeable: the specification names none of them.         *)
EXTENDS Teams, TLC

Symmetry ==
  Permutations(Users) \cup Permutations(Projects) \cup Permutations(TeamIds)
    \cup Permutations(Names) \cup Permutations(Requests)
=============================================================================
