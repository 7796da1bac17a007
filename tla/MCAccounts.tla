----------------------------- MODULE MCAccounts -----------------------------
(* Accounts on small sets; passwords, codes and requests in flight are       *)
(* interchangeable.                                                          *)
EXTENDS Accounts, TLC

Symmetry == Permutations(Passwords) \cup Permutations(Codes) \cup Permutations(Requests)
=============================================================================
