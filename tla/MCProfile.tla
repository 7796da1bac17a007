----------------------------- MODULE MCProfile -----------------------------
(***************************************************************************)
(* Profile for TLC.  No symmetry: the run checks a liveness property.      *)
(***************************************************************************)
EXTENDS Profile
=============================================================================
