------------------------------- MODULE MCFiles -------------------------------
(* Files on small sets.  The files that are no images are those of the raw   *)
(* objects.  Users, requests in flight, and files of one name are            *)
(* interchangeable.                                                          *)
EXTENDS Files, TLC

CONSTANTS f1, f2, f3, o1, o2

(* Two files of one name, and one of another.                                *)
Names == (f1 :> o1) @@ (f2 :> o1) @@ (f3 :> o2)
OneName == f1 :> o1

Symmetry ==
  Permutations(Users) \cup Permutations(Requests) \cup Permutations({f1, f2})
=============================================================================
