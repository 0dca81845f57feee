---------------------------- MODULE MCApprovals ----------------------------
(***************************************************************************)
(* Approvals for TLC.                                                      *)
(***************************************************************************)
EXTENDS Approvals

=============================================================================
