----------------------------- MODULE MCJobIndex -----------------------------
(***************************************************************************)
(* A small instance of JobIndex for TLC.                                   *)
(***************************************************************************)
EXTENDS JobIndex, TLC

Symmetry == Permutations(Calls) \cup Permutations(Workers)
=============================================================================
