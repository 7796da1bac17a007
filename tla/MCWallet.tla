------------------------------ MODULE MCWallet ------------------------------
(* Wallet on small sets; requests in flight are interchangeable.             *)
EXTENDS Wallet, TLC

Symmetry == Permutations(Requests)
=============================================================================
