----------------------------- MODULE LockTable -----------------------------
(***************************************************************************)
(* What the lock registry promises, without queues, call chains or pumps:  *)
(* a table of the locks that are held and of the locks that are waited     *)
(* for.  A lock is given only to somebody who asked for it, is taken away  *)
(* only by a release, and no two locks of the table are in conflict.       *)
(***************************************************************************)
CONSTANTS Claims,   \* who may ask for what
          Conflicts \* pairs of claims that may not be held at a time

VARIABLES held,     \* the claims that are granted and not released
          wanted    \* the claims that wait

Init == held = {} /\ wanted = {}

\* Some of the waiting claims W are granted beside the locks H: the table
\* stays free of conflicts, and is not left idle while somebody waits.
Settle(W, H) ==
  \E G \in SUBSET W :
    /\ held' = H \union G
    /\ wanted' = W \ G
    /\ \A g, h \in held' : g # h => <<g, h>> \notin Conflicts
    /\ wanted' # {} => held' # {}

Ask == \E c \in Claims \ (held \union wanted) : Settle(wanted \union {c}, held)

Free == \E c \in held : Settle(wanted, held \ {c})

Spec == Init /\ [][Ask \/ Free]_<<held, wanted>>

=============================================================================
