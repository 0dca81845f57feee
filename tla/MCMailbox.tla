----------------------------- MODULE MCMailbox -----------------------------
(* Small instances of the mailbox: the messages the runs choose from. *)
EXTENDS Mailbox, TLC

Symmetry == Permutations(Workers)

NoRefs == [s \in {"task", "req", "user", "conv", "chan", "session"} |-> None]
Message(t, p, refs) ==
  [type |-> t, exec |-> FALSE, action |-> FALSE, mention |-> FALSE,
   prio |-> p, round |-> None, ref |-> refs]

OnTask(s) == [NoRefs EXCEPT !["task"] = 1, !["session"] = s]

Execution == [Message("task_status_update", 1, OnTask(1)) EXCEPT !.exec = TRUE]
StatusUpdate == Message("task_status_update", 1, OnTask(0))
Review == [Message("review_request", 1, OnTask(0)) EXCEPT !.round = 1]
Comment == Message("task_comment", 2, OnTask(0))
Heartbeat == Message("heartbeat", 2, NoRefs)
Peer == Message("a2a_message", 1, [NoRefs EXCEPT !["chan"] = 1])
Chat == Message("human_chat", 0, [NoRefs EXCEPT !["conv"] = 1, !["session"] = 1])

Urgent(m) == [m EXCEPT !.prio = 1]
PoolMessages == {Execution, Review, Urgent(Chat)}
SerialMessages == {Urgent(Comment), Urgent(Heartbeat), StatusUpdate, Peer, Chat}
=============================================================================
