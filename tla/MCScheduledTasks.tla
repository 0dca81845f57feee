-------------------------- MODULE MCScheduledTasks --------------------------
(***************************************************************************)
(* ScheduledTasks for TLC.                                                 *)
(***************************************************************************)
EXTENDS ScheduledTasks

=============================================================================
