------------------------- MODULE MCTaskDependencies -------------------------
(***************************************************************************)
(* TaskDependencies for TLC.                                               *)
(***************************************************************************)
EXTENDS TaskDependencies, TLC

\* Tasks are interchangeable.
Symmetry == Permutations(Tasks)

=============================================================================
