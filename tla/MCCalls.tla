------------------------------ MODULE MCCalls ------------------------------
(***************************************************************************)
(* Calls for TLC.  No symmetry: the run checks a liveness property.        *)
(***************************************************************************)
EXTENDS Calls
=============================================================================
