----------------------------- MODULE TaskStatus -----------------------------
(***************************************************************************)
(* The status machine of a task (shared/src/types/task.ts).                *)
(***************************************************************************)

Status == {"pending", "in_progress", "blocked", "review", "completed", "failed",
           "rejected", "cancelled", "archived"}

\* TASK_TRANSITIONS, the only matrix of legal status changes.
transitions ==
  [pending     |-> {"in_progress", "blocked", "rejected", "cancelled", "completed"},
   in_progress |-> {"review", "blocked", "failed", "cancelled"},
   blocked     |-> {"in_progress", "cancelled", "failed"},
   review      |-> {"completed", "in_progress", "cancelled"},
   completed   |-> {"archived", "in_progress"},
   failed      |-> {"in_progress", "archived"},
   rejected    |-> {"archived"},
   cancelled   |-> {"archived", "in_progress"},
   archived    |-> {}]

=============================================================================
