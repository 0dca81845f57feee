--------------------------- MODULE TaskExecution ---------------------------
(***************************************************************************)
(* The life of one task in TaskService (org-manager/src/task-service.ts):  *)
(* its status machine, the dispatch of its executions to the agent, and    *)
(* the verdicts of its reviewers.                                          *)
(*                                                                         *)
(* An execution epoch is registered by runTask or runTaskFresh, is sent    *)
(* to the agent's mailbox, runs, reports how it ended through onLog, and   *)
(* is settled once when its promise ends.  A task has one epoch at a time: *)
(* a dispatch that meets an unsettled epoch is deferred until it settles   *)
(* (single flight).  Node is single threaded, so an action is what runs    *)
(* between two awaits; timers, setImmediate callbacks, the agent, the      *)
(* reviewers and the users interleave.                                     *)
(***************************************************************************)
EXTENDS Naturals, FiniteSets, TaskStatus

CONSTANTS
  Execs,      \* slots for execution epochs that are not over yet
  MaxRound,   \* bound: rounds of execution of the task
  MaxRetries, \* TASK_MAX_NO_SUBMIT_RETRIES, the cap on attempts and strikes
  MaxLateRetries, \* TASK_MAX_RETRIES, the cap once the task is not in progress
  MaxSame,    \* consecutive identical errors that are still retried
  MaxCopies,  \* bound: equal callbacks that wait at once
  MaxGhosts,  \* bound: mailbox items that lost their closures
  Ops,        \* the requests that users make in this instance
  Faults      \* the process may crash, the mailbox may lose closures

AllOps == {"pause", "cancel", "archive", "timeout", "reopen", "rerun", "fresh", "run", "stop"}

ASSUME ExecAssumption ==
  /\ IsFiniteSet(Execs) /\ "none" \notin Execs
  /\ MaxRound \in Nat \ {0} /\ MaxRetries \in Nat \ {0} /\ MaxSame \in Nat
  /\ MaxCopies \in Nat \ {0} /\ MaxGhosts \in Nat /\ MaxLateRetries \in Nat
  /\ Ops \subseteq AllOps /\ Faults \in BOOLEAN

VARIABLES
  status,     \* task.status
  round,      \* task.executionRound
  exec,       \* the epochs: TaskExecutionRecord, its cancelToken and its closure
  live,       \* liveExecutionByTask: the registered, unsettled epoch
  token,      \* taskCancelTokens: the epoch whose token a status change cancels
  deferred,   \* deferredDispatches: the dispatch that waits for the live epoch
  calls,      \* setImmediate and setTimeout callbacks that will call runTask(Fresh)
  submitted,  \* tasksSubmittedForReview
  strikes,    \* taskNoSubmitStrikes
  same,       \* taskRetryErrors: consecutive identical errors
  revising,   \* requestRevision calls that await the storage of their comment
  gate,       \* the human gate's "changes requested" that awaits the same
  ghosts,     \* execution items in the mailbox whose closures are lost
  rest        \* history: why the last epoch that ended was not replayed

dispatchVars == <<live, token, deferred, calls>>
budgetVars == <<submitted, strikes, same>>
reviewVars == <<revising, gate>>
vars == <<status, round, exec, dispatchVars, budgetVars, reviewVars, ghosts, rest>>

-----------------------------------------------------------------------------
isValidTaskTransition(to) == to \in transitions[status]

\* A dispatch is runTaskFresh, or runTask with its attempt (0: not a retry).
Fresh == [fresh |-> TRUE, attempt |-> 0]
Attempt(n) == [fresh |-> FALSE, attempt |-> n]
Calls == {Fresh} \union {Attempt(n) : n \in 0..MaxRetries}
NoExec == "none"

\* ExecutionStopReason; "none" is a token that is not cancelled.
Reasons == {"lifecycle", "superseded", "user_stop", "user_cancel", "preempted"}
resumable == {"preempted"}

Phases == {"over", "mailbox", "running", "submitting", "rejecting", "resolving", "lost"}
Over == [phase |-> "over", round |-> 1, fresh |-> FALSE, attempt |-> 0,
         reason |-> "none", settled |-> TRUE]
InFlight == {e \in Execs : exec[e].phase \in {"running", "submitting"}}

Init ==
  /\ status = "pending"
  /\ round = 1
  /\ exec = [e \in Execs |-> Over]
  /\ live = NoExec /\ token = NoExec /\ deferred = {}
  /\ calls = [c \in Calls |-> 0]
  /\ submitted = FALSE /\ strikes = 0 /\ same = 0
  /\ revising = 0 /\ gate = 0
  /\ ghosts = 0
  /\ rest = "none"

-----------------------------------------------------------------------------
\* A callback is scheduled (MaxCopies equal ones are as good as more).
Add(C, c) == [C EXCEPT ![c] = IF @ < MaxCopies THEN @ + 1 ELSE @]

\* cancelExecutionToken: the first reason wins.
cancelExecutionToken(E, e, why) ==
  IF e \in Execs /\ E[e].phase # "over" /\ E[e].reason = "none" THEN [E EXCEPT ![e].reason = why] ELSE E

\* Mutant of changeStatus: the token is deleted but not cancelled.
changeStatusNoCancel(to, E, C, skipAutoStart) ==
  /\ status' = to
  /\ exec' = E
  /\ IF status = "in_progress" THEN token' = NoExec /\ deferred' = {} /\ same' = 0
                               ELSE UNCHANGED <<token, deferred, same>>
  /\ calls' = IF to = "in_progress" /\ ~skipAutoStart THEN Add(C, Attempt(0)) ELSE C

\* updateTaskStatus for a legal change, with the epochs E and callbacks C that
\* the caller leaves: cleanupOnLeaveStatus, maybeAutoStartExecution.
changeStatus(to, E, C, skipAutoStart) ==
  /\ status' = to
  /\ IF status = "in_progress"
       THEN /\ exec' = cancelExecutionToken(E, token, "lifecycle")
            /\ token' = NoExec
            /\ deferred' = {}
            /\ same' = 0
       ELSE exec' = E /\ UNCHANGED <<token, deferred, same>>
  /\ calls' = IF to = "in_progress" /\ ~skipAutoStart THEN Add(C, Attempt(0)) ELSE C

\* A call of updateTaskStatus that leaves the status alone: it has the status
\* already, or the change is refused.
keepStatus(E, C) == exec' = E /\ calls' = C /\ UNCHANGED <<status, token, deferred, same>>

tryStatus(to, E, C) ==
  IF isValidTaskTransition(to) THEN changeStatus(to, E, C, FALSE) ELSE keepStatus(E, C)

-----------------------------------------------------------------------------
(***************************************************************************)
(* Users, the API and the timers that change the status.                   *)
(***************************************************************************)
SetStatus(from, to) ==
  /\ status \in from
  /\ isValidTaskTransition(to)
  /\ changeStatus(to, exec, calls, FALSE)
  /\ UNCHANGED <<round, live, submitted, strikes, reviewVars, ghosts, rest>>

approveTask == SetStatus({"pending"}, "in_progress")
rejectTask == SetStatus({"pending"}, "rejected")
pauseTask == "pause" \in Ops /\ SetStatus({"in_progress"}, "blocked")
resumeTask == SetStatus({"blocked"}, "in_progress")
cancelTask == "cancel" \in Ops /\ SetStatus(Status, "cancelled")
archiveTask == "archive" \in Ops /\ SetStatus(Status, "archived")
checkTimeouts == "timeout" \in Ops /\ SetStatus({"in_progress"}, "failed")

\* updateTaskStatus(in_progress) by a person or by the system.
reopen == "reopen" \in Ops /\ SetStatus({"completed", "failed", "cancelled"}, "in_progress")

\* resetTaskForRerun: the scheduler starts another round.
resetTaskForRerun ==
  /\ "rerun" \in Ops
  /\ round < MaxRound
  /\ status \in {"completed", "failed", "cancelled"}
  /\ round' = round + 1
  /\ changeStatus("in_progress", exec, calls, FALSE)
  /\ UNCHANGED <<live, submitted, strikes, reviewVars, ghosts, rest>>

\* retryTaskFresh: ask the live epoch to stop, then start over without context.
retryTaskFresh ==
  /\ "fresh" \in Ops
  /\ round < MaxRound
  /\ status \in {"in_progress", "failed", "blocked", "review"}
  /\ round' = round + 1
  /\ LET E == cancelExecutionToken(exec, live, "superseded")
         C == Add(calls, Fresh)
     IN IF status = "in_progress" THEN keepStatus(E, C)
                                  ELSE changeStatus("in_progress", E, C, TRUE)
  /\ UNCHANGED <<live, submitted, strikes, reviewVars, ghosts, rest>>

-----------------------------------------------------------------------------
(***************************************************************************)
(* Dispatch.                                                               *)
(***************************************************************************)
\* registerTaskExecution for the dispatch c, in the epochs E: the token of the
\* new epoch replaces the old one; the item is sent to the mailbox.
registerTaskExecution(c, E) ==
  \E e \in Execs :
    /\ exec[e] = Over
    /\ exec' = [E EXCEPT ![e] = [phase |-> "mailbox", round |-> round, fresh |-> c.fresh,
                                 attempt |-> c.attempt, reason |-> "none", settled |-> FALSE]]
    /\ live' = e
    /\ token' = e
    /\ rest' = "none"
    /\ UNCHANGED deferred

\* The rest of runTask behind the gate: a new epoch owes a new submission, and
\* has a clean budget unless it is a retry; the prompt is built from the task's
\* history.
runTask(c) ==
  /\ registerTaskExecution(c, cancelExecutionToken(exec, token, "superseded"))
  /\ submitted' = FALSE
  /\ strikes' = IF c = Attempt(0) THEN 0 ELSE strikes

\* The rest of runTaskFresh behind the gate: the prompt has no history.
runTaskFresh(c) == registerTaskExecution(c, exec) /\ UNCHANGED <<submitted, strikes>>

start(c) == IF c.fresh THEN runTaskFresh(c) ELSE runTask(c)

\* Mutant of run: an unsettled epoch whose token is cancelled does not count.
runBesideCancelled(c) ==
  IF status # "in_progress"
    THEN UNCHANGED <<exec, live, token, deferred, submitted, strikes, rest>>
  ELSE IF live # NoExec /\ exec[live].reason = "none"
    THEN deferred' = {c} /\ UNCHANGED <<exec, live, token, submitted, strikes, rest>>
  ELSE start(c)

\* The single-flight gate of runTask and runTaskFresh, for an intent that may
\* be deferred (deferTaskDispatch: the latest request wins).
run(c) ==
  IF status # "in_progress"
    THEN UNCHANGED <<exec, live, token, deferred, submitted, strikes, rest>>
  ELSE IF live # NoExec
    THEN deferred' = {c} /\ UNCHANGED <<exec, live, token, submitted, strikes, rest>>
  ELSE start(c)

\* A setImmediate or setTimeout callback runs.
callback(c) ==
  /\ calls[c] > 0
  /\ calls' = [calls EXCEPT ![c] = @ - 1]
  /\ run(c)
  /\ UNCHANGED <<status, round, same, reviewVars, ghosts>>

\* runTask with the intent "dispatch" (the API's run button): refused when an
\* epoch is live.
dispatch ==
  /\ "run" \in Ops
  /\ status = "in_progress"
  /\ live = NoExec
  /\ start(Attempt(0))
  /\ UNCHANGED <<status, round, calls, same, reviewVars, ghosts>>

\* Mutant of settle: nothing is armed.
settleOnly(e, E, d) ==
  /\ exec' = E
  /\ live' = IF live = e THEN NoExec ELSE live
  /\ deferred' = IF exec[e].settled THEN d ELSE {}
  /\ UNCHANGED calls

\* settleTaskExecution of e in the epochs E, and armDeferredDispatch.
settle(e, E, d) ==
  IF exec[e].settled
    THEN exec' = E /\ UNCHANGED <<live, calls>> /\ deferred' = d
    ELSE /\ exec' = E
         /\ live' = IF live = e THEN NoExec ELSE live
         /\ calls' = IF d = {} THEN calls ELSE Add(calls, CHOOSE c \in d : TRUE)
         /\ deferred' = {}

\* Mutant of finally: an epoch settles only while it owns the task's token.
finallyByToken(e) ==
  /\ exec[e].phase = "resolving"
  /\ token' = IF token = e /\ ~exec[e].fresh THEN NoExec ELSE token
  /\ IF token = e
       THEN settle(e, [exec EXCEPT ![e] = Over], deferred)
       ELSE exec' = [exec EXCEPT ![e].phase = "over"] /\ UNCHANGED <<live, calls, deferred>>
  /\ UNCHANGED <<status, round, budgetVars, reviewVars, ghosts, rest>>

\* The promise of sendTaskExecution has ended: .finally.
finally(e) ==
  /\ exec[e].phase = "resolving"
  /\ token' = IF token = e /\ ~exec[e].fresh THEN NoExec ELSE token
  /\ settle(e, [exec EXCEPT ![e] = Over], deferred)
  /\ UNCHANGED <<status, round, budgetVars, reviewVars, ghosts, rest>>

\* recoverLostTaskExecution, on agent:incomplete for an item without closures.
recoverLost ==
  IF status # "in_progress"
    THEN UNCHANGED <<exec, dispatchVars, submitted, strikes, rest>>
  ELSE IF live = NoExec
    THEN start(Attempt(0)) /\ UNCHANGED calls
  ELSE IF exec[live].round # round
    THEN UNCHANGED <<exec, dispatchVars, submitted, strikes, rest>>
  ELSE /\ settle(live, IF exec[live].phase = "lost" THEN [exec EXCEPT ![live] = Over]
                       ELSE [exec EXCEPT ![live].settled = TRUE], {Attempt(0)})
       /\ UNCHANGED <<token, submitted, strikes, rest>>

-----------------------------------------------------------------------------
(***************************************************************************)
(* The agent: the execution item in its mailbox, and what executeTask      *)
(* reports to onLog before its promise ends.                               *)
(***************************************************************************)
Phase(e, p) == [exec EXCEPT ![e].phase = p]

\* The item is deferred in the mailbox and comes back from the database.
loseClosures(e) ==
  /\ exec[e].phase = "mailbox"
  /\ Faults
  /\ ghosts < MaxGhosts
  /\ ghosts' = ghosts + 1
  /\ exec' = Phase(e, "lost")
  /\ UNCHANGED <<status, round, dispatchVars, budgetVars, reviewVars, rest>>

\* An item without closures is processed.
processGhost ==
  /\ ghosts > 0
  /\ ghosts' = ghosts - 1
  /\ recoverLost
  /\ UNCHANGED <<status, round, same, reviewVars>>

\* Mutant of process: a second execution is not noticed.
processAlways(e) ==
  /\ exec[e].phase = "mailbox"
  /\ exec' = Phase(e, "running")
  /\ UNCHANGED <<status, round, dispatchVars, budgetVars, reviewVars, ghosts, rest>>

\* processMailboxItem: getInFlightTaskExecution drops a second execution.
process(e) ==
  /\ exec[e].phase = "mailbox"
  /\ IF InFlight = {}
       THEN exec' = Phase(e, "running") /\ UNCHANGED rest
       ELSE exec' = Phase(e, "resolving") /\ rest' = "duplicate"
  /\ UNCHANGED <<status, round, dispatchVars, budgetVars, reviewVars, ghosts>>

\* A person stops what the agent does.
cancelActiveStream(e) ==
  /\ "stop" \in Ops
  /\ exec[e].phase = "running"
  /\ exec[e].reason = "none"
  /\ exec' = cancelExecutionToken(exec, e, "user_stop")
  /\ UNCHANGED <<status, round, dispatchVars, budgetVars, reviewVars, ghosts, rest>>

\* Mutant of handleExecutionStopped: nothing is replayed.
handleExecutionStoppedSilent(why) ==
  /\ rest' = IF why \in {"user_stop", "user_cancel"} THEN "user" ELSE rest
  /\ UNCHANGED <<status, round, dispatchVars, budgetVars, reviewVars, ghosts>>

\* handleExecutionStopped: only a resumable reason is replayed, after a delay.
handleExecutionStopped(why) ==
  /\ calls' = IF why \in resumable /\ status = "in_progress" THEN Add(calls, Attempt(0)) ELSE calls
  /\ rest' = IF why \in {"user_stop", "user_cancel"} THEN "user" ELSE rest
  /\ UNCHANGED <<status, round, live, token, deferred, budgetVars, reviewVars, ghosts>>

\* The agent sees the cancelled token and reports its reason.
reportCancelled(e) ==
  /\ exec[e].phase = "running"
  /\ exec[e].reason # "none"
  /\ exec' = Phase(e, "resolving")
  /\ handleExecutionStopped(exec[e].reason)

\* At a yield point the attention controller preempts or cancels the task.
yieldTo(e, why) ==
  /\ exec[e].phase = "running"
  /\ exec' = cancelExecutionToken(Phase(e, "resolving"), e, why)
  /\ handleExecutionStopped(why)

\* nextNoSubmitBudget: the strike that is counted now exhausts the budget.
exhausted == strikes + 1 >= MaxRetries
Again(n) == Attempt(IF n < MaxRetries THEN n + 1 ELSE n)

\* execution_finished, in a turn that may or may not have submitted.
executionFinished(e) ==
  /\ exec[e].phase = "running"
  /\ submitted' = FALSE
  /\ LET noSubmit == status = "in_progress" /\ ~submitted
         E == Phase(e, "resolving")
         fresh == exec[e].fresh
     IN /\ IF noSubmit /\ ~fresh /\ exhausted
             THEN changeStatus("failed", E, calls, FALSE)
             ELSE keepStatus(E, IF ~noSubmit THEN calls
                                ELSE Add(calls, Again(exec[e].attempt)))
        /\ strikes' = IF ~noSubmit \/ fresh THEN strikes
                      ELSE IF exhausted THEN 0 ELSE strikes + 1
        /\ rest' = IF status = "in_progress" /\ submitted THEN "submitted" ELSE rest
  /\ UNCHANGED <<round, live, reviewVars, ghosts>>

\* shouldRetryTask, for an error that may repeat the last one and may be
\* retryable; the counter of identical errors after it.
counts(e, retryable) == status = "in_progress" /\ exec[e].attempt < MaxRetries /\ retryable
sameAfter(e, retryable, repeated) ==
  IF ~counts(e, retryable) THEN same
  ELSE IF repeated THEN (IF same <= MaxSame THEN same + 1 ELSE same) ELSE 1
shouldRetryTask(e, retryable, repeated) ==
  IF status = "in_progress"
    THEN counts(e, retryable) /\ sameAfter(e, retryable, repeated) <= MaxSame
    ELSE exec[e].attempt < MaxLateRetries

\* The task fails, if it still can, and forgets its errors.
fail(E) ==
  IF isValidTaskTransition("failed")
    THEN changeStatus("failed", E, calls, FALSE)
    ELSE exec' = E /\ same' = 0 /\ UNCHANGED <<status, token, deferred, calls>>

\* The agent reports an error and is about to reject its promise.  runTask
\* retries or fails the task; runTaskFresh only fails it.
reportError(e, retryable, repeated) ==
  /\ exec[e].phase = "running"
  /\ exec[e].reason = "none"
  /\ LET E == Phase(e, "rejecting")
     IN IF shouldRetryTask(e, retryable, repeated)
          THEN /\ exec' = E
               /\ calls' = IF exec[e].fresh THEN calls ELSE Add(calls, Again(exec[e].attempt))
               /\ same' = sameAfter(e, retryable, repeated)
               /\ UNCHANGED <<status, token, deferred>>
          ELSE fail(E)
  /\ UNCHANGED <<round, live, submitted, strikes, reviewVars, ghosts, rest>>

\* .catch of the rejected promise: the same decision again, unless the token is
\* cancelled by now; runTaskFresh fails the task.
catch(e, retryable, repeated) ==
  /\ exec[e].phase = "rejecting"
  /\ LET E == Phase(e, "resolving")
     IN IF exec[e].reason # "none"
          THEN keepStatus(E, calls)
        ELSE IF ~exec[e].fresh /\ shouldRetryTask(e, retryable, repeated)
          THEN /\ exec' = E
               /\ calls' = Add(calls, Again(exec[e].attempt))
               /\ same' = sameAfter(e, retryable, repeated)
               /\ UNCHANGED <<status, token, deferred>>
        ELSE fail(E)
  /\ UNCHANGED <<round, live, submitted, strikes, reviewVars, ghosts, rest>>

-----------------------------------------------------------------------------
(***************************************************************************)
(* Review.                                                                 *)
(***************************************************************************)
\* submitForReview checks the status and awaits the automated review ...
submitForReview(e) ==
  /\ exec[e].phase = "running"
  /\ status = "in_progress"
  /\ exec' = Phase(e, "submitting")
  /\ UNCHANGED <<status, round, dispatchVars, budgetVars, reviewVars, ghosts, rest>>

\* ... and then submits, whatever the status is by now.
submissionReviewed(e) ==
  /\ exec[e].phase = "submitting"
  /\ submitted' = TRUE
  /\ tryStatus("review", Phase(e, "running"), calls)
  /\ UNCHANGED <<round, live, strikes, revising, gate, ghosts, rest>>

\* acceptTask, and the approval at the human gate; a late one changes nothing.
acceptTask ==
  /\ status = "review"
  /\ changeStatus("completed", exec, calls, FALSE)
  /\ UNCHANGED <<round, live, submitted, strikes, revising, gate, ghosts, rest>>

\* requestRevision opens the next round, then stores the reviewer's comment.
\* While that is awaited anything may happen here; in the code, whose repository
\* is synchronous, only continuations such as a parallel call of the same turn.
\* (reviewSettlements is not kept: a task in review has no settled entry for
\* its round, so that it refuses only what the status refuses.)
requestRevision ==
  /\ status = "review"
  /\ round < MaxRound
  /\ round' = round + 1
  /\ revising < MaxCopies
  /\ revising' = revising + 1
  /\ keepStatus(exec, calls)
  /\ UNCHANGED <<live, submitted, strikes, gate, ghosts, rest>>

\* The task goes back to work, whatever its status is by now; an agent may not
\* reopen a completed task.
revisionStored(by) ==
  /\ revising > 0
  /\ revising' = revising - 1
  /\ IF by = "agent" /\ status = "completed"
       THEN keepStatus(exec, calls) ELSE tryStatus("in_progress", exec, calls)
  /\ UNCHANGED <<round, live, submitted, strikes, gate, ghosts, rest>>

\* applyReviewGateDecision: a person asks for changes; the comment is stored
\* first, the task goes back to work afterwards.
requestChanges ==
  /\ status = "review"
  /\ gate = 0
  /\ gate' = 1
  /\ UNCHANGED <<status, round, exec, dispatchVars, budgetVars, revising, ghosts, rest>>

changesStored ==
  /\ gate = 1
  /\ gate' = 0
  /\ tryStatus("in_progress", exec, calls)
  /\ UNCHANGED <<round, live, submitted, strikes, revising, ghosts, rest>>

-----------------------------------------------------------------------------
\* The process is killed and started again: loadFromDB restores the task and
\* resumeInProgressTasks starts it; the items of the epochs that were sent may
\* still be in the mailbox, without closures.
crash ==
  /\ Faults
  /\ exec' = [e \in Execs |-> Over]
  /\ live' = NoExec /\ token' = NoExec /\ deferred' = {}
  /\ calls' = [c \in Calls |-> IF c = Attempt(0) /\ status = "in_progress" THEN 1 ELSE 0]
  /\ submitted' = FALSE /\ strikes' = 0 /\ same' = 0
  /\ revising' = 0 /\ gate' = 0
  /\ rest' = "none"
  /\ LET sent == {e \in Execs : exec[e].phase \in {"mailbox", "running", "submitting"}}
     IN \E n \in 0..Cardinality(sent) :
          ghosts' = IF ghosts + n <= MaxGhosts THEN ghosts + n ELSE MaxGhosts
  /\ UNCHANGED <<status, round>>

Ends(e) ==
  \/ reportCancelled(e) \/ executionFinished(e)
  \/ \E why \in {"preempted", "user_cancel"} : yieldTo(e, why)
  \/ \E retryable, repeated \in BOOLEAN : reportError(e, retryable, repeated)

Closes(e) ==
  \/ submissionReviewed(e) \/ finally(e)
  \/ \E retryable, repeated \in BOOLEAN : catch(e, retryable, repeated)

Next ==
  \/ approveTask \/ rejectTask \/ pauseTask \/ resumeTask \/ cancelTask
  \/ archiveTask \/ checkTimeouts \/ reopen \/ resetTaskForRerun \/ retryTaskFresh
  \/ dispatch \/ processGhost \/ crash
  \/ \E c \in Calls : callback(c)
  \/ \E e \in Execs :
       \/ loseClosures(e) \/ process(e) \/ cancelActiveStream(e)
       \/ submitForReview(e) \/ Ends(e) \/ Closes(e)
  \/ acceptTask \/ requestRevision \/ requestChanges \/ changesStored
  \/ \E by \in {"agent", "human"} : revisionStored(by)

Spec == Init /\ [][Next]_vars

\* Callbacks run, items are processed, a turn of the agent ends (it has an
\* inactivity backstop and bounded rounds), and awaits return.
Fairness ==
  /\ \A c \in Calls : WF_vars(callback(c))
  /\ WF_vars(processGhost) /\ WF_vars(changesStored)
  /\ WF_vars(\E by \in {"agent", "human"} : revisionStored(by))
  /\ \A e \in Execs : WF_vars(process(e)) /\ WF_vars(Ends(e)) /\ WF_vars(Closes(e))

FairSpec == Spec /\ Fairness

-----------------------------------------------------------------------------
Epoch == [phase : Phases, round : 1..MaxRound, fresh : BOOLEAN, attempt : 0..MaxRetries,
          reason : Reasons \union {"none"}, settled : BOOLEAN]

\* Every variable has a value of its kind.
TypeOK ==
  /\ status \in Status
  /\ round \in 1..MaxRound
  /\ exec \in [Execs -> Epoch]
  /\ live \in Execs \union {NoExec}
  /\ token \in Execs \union {NoExec}
  /\ deferred \in {{}} \union {{c} : c \in Calls}
  /\ calls \in [Calls -> 0..MaxCopies]
  /\ submitted \in BOOLEAN /\ strikes \in 0..(MaxRetries - 1) /\ same \in 0..(MaxSame + 1)
  /\ revising \in 0..MaxCopies /\ gate \in 0..1
  /\ ghosts \in 0..MaxGhosts
  /\ rest \in {"none", "user", "submitted", "duplicate"}

\* Two sessions never write the same worktree: the agent runs one execution of
\* the task, whatever is dispatched, retried, recovered or replayed.  (The agent
\* forgets a running execution after 90 minutes; this is not modelled.)
OneWriter == Cardinality(InFlight) <= 1

\* Nobody else is registered while an epoch is unsettled: live is the only one.
OneUnsettled == \A e \in Execs : ~exec[e].settled <=> live = e

\* No work is lost in silence: a task in progress has an epoch, a callback that
\* will start one, or an end of its last epoch that the code knows of.
NoSilentLoss ==
  status = "in_progress" =>
     \/ live # NoExec
     \/ \E c \in Calls : calls[c] > 0
     \/ rest # "none"

\* The execution of a task that has left in_progress was told to stop, as long
\* as it is the registered one.
StoppedWhenLeft ==
  status # "in_progress" =>
     \A e \in Execs : ~exec[e].settled /\ exec[e].phase \in {"mailbox", "running", "submitting"}
                        => exec[e].reason # "none"

\* A deferred dispatch is replayed or dropped.
DeferredReplayed == deferred # {} ~> deferred = {}

\* A task in progress comes to run, leaves the status, or rests for a reason.
EventuallyRuns ==
  status = "in_progress" ~> (InFlight # {} \/ status # "in_progress" \/ rest # "none")

=============================================================================
