---------------------------- MODULE MCMembership ----------------------------
(* Membership on small sets.  Users, project ids, titles and requests in     *)
(* flight are interchangeable: the specification names none of them.         *)
EXTENDS Membership, TLC

Symmetry ==
  Permutations(Users) \cup Permutations(Projects)
    \cup Permutations(Titles) \cup Permutations(Requests)
=============================================================================
