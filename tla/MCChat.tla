------------------------------- MODULE MCChat -------------------------------
(* Chat on small sets.  Users, rooms, sockets and requests in flight are     *)
(* interchangeable: the specification names none of them.                    *)
EXTENDS Chat, TLC

Symmetry ==
  Permutations(Users) \cup Permutations(Rooms) \cup Permutations(Sockets)
    \cup Permutations(Requests)
=============================================================================
