------------------------- MODULE MCPendingCallbacks -------------------------
(***************************************************************************)
(* PendingCallbacks for TLC.                                               *)
(***************************************************************************)
EXTENDS PendingCallbacks, TLC

=============================================================================
