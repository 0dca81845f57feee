--------------------------- MODULE MCWorkflowRuns ---------------------------
(***************************************************************************)
(* WorkflowRuns for TLC.                                                   *)
(***************************************************************************)
EXTENDS WorkflowRuns, TLC
=============================================================================
