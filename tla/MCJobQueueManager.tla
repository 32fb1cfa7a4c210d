------------------------- MODULE MCJobQueueManager -------------------------
(***************************************************************************)
(* Small instances of JobQueueManager for TLC.                             *)
(***************************************************************************)
EXTENDS JobQueueManager

\* Dropping after two tries instead of six.
MCMinPriority == -1

Symmetry == Permutations(Jobs) \cup Permutations(Clients)
=============================================================================
