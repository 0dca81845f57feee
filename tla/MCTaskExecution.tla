-------------------------- MODULE MCTaskExecution --------------------------
(***************************************************************************)
(* TaskExecution for TLC.                                                  *)
(***************************************************************************)
EXTENDS TaskExecution, TLC

\* Slots are interchangeable.
Symmetry == Permutations(Execs)

=============================================================================
