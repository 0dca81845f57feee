------------------------- MODULE WorkflowRunsProofs -------------------------
(***************************************************************************)
(* Proof that the status of a workflow run is the projection of its tasks  *)
(* and that a cancelled run stays cancelled, for any number of steps and   *)
(* any dependencies between them.                                          *)
(*                                                                         *)
(* The run reads nothing of its tasks but their status, so the first part  *)
(* says nothing of how the engine moves them: a step of the tasks is any   *)
(* change of "status" that the webhook sees, or one that a crash hides     *)
(* from it.  What the loop of cancelRun has cancelled stays ended because  *)
(* the engine, at work on the dependents of cancelled tasks, only cancels. *)
(***************************************************************************)
EXTENDS WorkflowRuns, TLAPS

\* The memory and the row agree: a run in memory has the status of its row,
\* and a row that says "running" has its run in memory, also after a crash.
RowIsHeld ==
  /\ run # "none" => row = run
  /\ row = "running" => run = "running"

\* The projection holds in every state, while a propagation runs and while
\* the process is down too; this is what a restart relies on.
Derived ==
  run \notin {"none", "paused", "cancelled"} /\ ~unseen => run = deriveRunStatus(status)

\* What the run is while its tasks change.
RunOK == RowIsHeld /\ Derived

\* The statuses are a function on the tasks.
StatusFn == status = [t \in Tasks |-> status[t]]

\* While the loop of cancelRun runs: what it has visited has ended, the engine
\* looks at dependents of cancelled tasks, and the run is not completed.
DeadWork == \A t \in work : \E b \in Tasks : b \in blockedBy[t] /\ status[b] = "cancelled"
LoopOK ==
  cancelling => /\ up
                /\ \A t \in Tasks \ left : status[t] \in TERMINAL_STATUSES
                /\ DeadWork
                /\ row # "completed"

\* The inductive invariant.
Inv == RunOK /\ StatusFn /\ left \subseteq Tasks /\ LoopOK

-----------------------------------------------------------------------------
\* The status of a run is one of four, and depends on the statuses of its
\* tasks only.
LEMMA DerivedStatus ==
  /\ \A S : deriveRunStatus(S) \in {"completed", "failed", "cancelled", "running"}
  /\ \A S, T : (\A t \in Tasks : S[t] = T[t]) => deriveRunStatus(S) = deriveRunStatus(T)
<1>1. \A S : deriveRunStatus(S) \in {"completed", "failed", "cancelled", "running"}
  BY DEF deriveRunStatus
<1>2. ASSUME NEW S, NEW T, \A t \in Tasks : S[t] = T[t]
      PROVE  deriveRunStatus(S) = deriveRunStatus(T)
  <2>1. /\ (\A t \in Tasks : S[t] = "completed") <=> (\A t \in Tasks : T[t] = "completed")
        /\ (\A t \in Tasks : S[t] \in TERMINAL_STATUSES)
             <=> (\A t \in Tasks : T[t] \in TERMINAL_STATUSES)
        /\ (\E t \in Tasks : S[t] = "failed") <=> (\E t \in Tasks : T[t] = "failed")
        /\ (\E t \in Tasks : S[t] = "cancelled") <=> (\E t \in Tasks : T[t] = "cancelled")
    BY <1>2
  <2> QED BY <2>1 DEF deriveRunStatus
<1> QED BY <1>1, <1>2

\* A status of the tasks that some task has not ended in makes the run run.
LEMMA OpenRuns ==
  ASSUME NEW S, NEW t \in Tasks, S[t] \notin TERMINAL_STATUSES
  PROVE  deriveRunStatus(S) = "running"
BY DEF deriveRunStatus, TERMINAL_STATUSES

-----------------------------------------------------------------------------
\* No run, no tasks.
LEMMA InitInv == Init => Inv
BY DEF Init, Inv, RunOK, RowIsHeld, Derived, StatusFn, LoopOK, Dep!Init

\* The webhook leaves the run derived from what it was told, whatever the
\* change was, and a cancelled run as it is.
LEMMA WebhookInv ==
  ASSUME RunOK, onTaskStatusChange
  PROVE  RunOK' /\ (row = "cancelled" => row' = "cancelled")
<1>1. CASE run \in {"none", "paused", "cancelled"}
  BY <1>1 DEF onTaskStatusChange, RunOK, RowIsHeld, Derived
<1>2. CASE run \notin {"none", "paused", "cancelled"} /\ Changed = {}
  <2>1. UNCHANGED <<run, row, unseen>>
    BY <1>2 DEF onTaskStatusChange
  <2>2. deriveRunStatus(status') = deriveRunStatus(status)
    BY <1>2, DerivedStatus DEF Changed
  <2>3. deriveRunStatus(status)' = deriveRunStatus(status')
    BY DEF deriveRunStatus
  <2> QED BY <1>2, <2>1, <2>2, <2>3 DEF RunOK, RowIsHeld, Derived
<1>3. CASE /\ run \notin {"none", "paused", "cancelled"} /\ Changed # {}
           /\ \E t \in Changed : missingOutputs(t)
  <2>1. UNCHANGED <<run, row>> /\ unseen' = TRUE
    BY <1>3 DEF onTaskStatusChange
  <2> QED BY <1>3, <2>1 DEF RunOK, RowIsHeld, Derived
<1>4. CASE /\ run \notin {"none", "paused", "cancelled"} /\ Changed # {}
           /\ ~\E t \in Changed : missingOutputs(t)
  <2>1. run' = deriveRunStatus(status') /\ row' = IF run' # run THEN run' ELSE row
    BY <1>4 DEF onTaskStatusChange
  <2>2. row = run
    BY <1>4 DEF RunOK, RowIsHeld
  <2>3. run' \in {"completed", "failed", "cancelled", "running"}
    BY <2>1, DerivedStatus
  <2>4. deriveRunStatus(status)' = deriveRunStatus(status')
    BY DEF deriveRunStatus
  <2> QED BY <1>4, <2>1, <2>2, <2>3, <2>4 DEF RunOK, RowIsHeld, Derived
<1> QED BY <1>1, <1>2, <1>3, <1>4

\* A step that leaves the run alone and changes no status keeps what it may
\* say of the run; so does one whose change the run has not seen.
LEMMA IdleInv ==
  ASSUME RunOK, UNCHANGED <<run, row>>, UNCHANGED <<status, unseen>> \/ unseen' = TRUE
  PROVE  RunOK' /\ (row = "cancelled" => row' = "cancelled")
<1>1. RowIsHeld' /\ (row = "cancelled" => row' = "cancelled")
  BY DEF RunOK, RowIsHeld
<1>2. Derived'
  <2>1. CASE UNCHANGED <<status, unseen>>
    <3>1. deriveRunStatus(status)' = deriveRunStatus(status)
      BY <2>1 DEF deriveRunStatus
    <3> QED BY <2>1, <3>1 DEF RunOK, Derived
  <2>2. CASE unseen' = TRUE
    BY <2>2 DEF Derived
  <2> QED BY <2>1, <2>2
<1> QED BY <1>1, <1>2 DEF RunOK

\* A change of a task, seen by the webhook or hidden by a crash.
LEMMA TaskChangeInv ==
  ASSUME RunOK, seen(engine) \/ seen(agents) \/ seen(reviewers) \/ seen(users)
              \/ missed(agents \/ reviewers \/ engine \/ \E t \in left : cancels(t)) \/ cancelNext
  PROVE  RunOK' /\ (row = "cancelled" => row' = "cancelled")
<1>1. CASE missed(agents \/ reviewers \/ engine \/ \E t \in left : cancels(t))
  <2>1. UNCHANGED <<run, row>> /\ unseen' = TRUE
    BY <1>1 DEF missed, runVars
  <2> QED BY <2>1, IdleInv
<1>2. CASE seen(engine) \/ seen(agents) \/ seen(reviewers) \/ seen(users) \/ cancelNext
  <2>1. onTaskStatusChange
    BY <1>2 DEF seen, cancelNext
  <2> QED BY <2>1, WebhookInv
<1> QED BY <1>1, <1>2

\* A run starts with a task that has not ended.
LEMMA CreateInv ==
  ASSUME RunOK, createRun
  PROVE  RunOK' /\ (row = "cancelled" => row' = "cancelled")
<1>1. PICK t \in Tasks : TRUE
  BY WorkflowAssumption
<1>2. status'[t] \in {"in_progress", "blocked"}
  BY <1>1 DEF createRun
<1>3. deriveRunStatus(status') = "running"
  BY <1>2, OpenRuns DEF TERMINAL_STATUSES
<1>4. deriveRunStatus(status)' = deriveRunStatus(status')
  BY DEF deriveRunStatus
<1> QED BY <1>3, <1>4 DEF createRun, RunOK, RowIsHeld, Derived

\* What users do to the run: a paused or running run is paused or resumed, a
\* resume that finds the tasks ended leaves it behind, and the end of the loop
\* of cancelRun cancels it.
LEMMA ControlInv ==
  ASSUME RunOK, pauseRun \/ resumeRun \/ cancelEnd
  PROVE  RunOK' /\ (row = "cancelled" => row' = "cancelled")
<1>1. CASE cancelEnd
  <2>1. run' = "cancelled" /\ row' = "cancelled"
    BY <1>1 DEF cancelEnd, putRun
  <2> QED BY <2>1 DEF RunOK, RowIsHeld, Derived
<1>2. CASE pauseRun
  <2>1. run' = "paused" /\ row' = "paused" /\ row = "running"
    BY <1>2 DEF pauseRun, control, putRun, Held, RunOK, RowIsHeld
  <2> QED BY <2>1 DEF RunOK, RowIsHeld, Derived
<1>3. CASE resumeRun
  <2>1. run' = "running" /\ row' = "running" /\ row = "paused"
    BY <1>3 DEF resumeRun, control, putRun, Held, RunOK, RowIsHeld
  <2>2. ~unseen' => deriveRunStatus(status') = "running"
    BY <1>3 DEF resumeRun
  <2>3. deriveRunStatus(status)' = deriveRunStatus(status')
    BY DEF deriveRunStatus
  <2> QED BY <2>1, <2>2, <2>3 DEF RunOK, RowIsHeld, Derived
<1> QED BY <1>1, <1>2, <1>3

\* A list heals the row of a run that is behind its tasks.
LEMMA ListInv ==
  ASSUME RunOK, listRuns
  PROVE  RunOK' /\ (row = "cancelled" => row' = "cancelled")
<1>1. run' = deriveRunStatus(status) /\ row' = run' /\ row # "cancelled" /\ UNCHANGED status
  BY DEF listRuns, taskVars
<1>2. deriveRunStatus(status)' = deriveRunStatus(status)
  BY <1>1 DEF deriveRunStatus
<1> QED BY <1>1, <1>2, DerivedStatus DEF RunOK, RowIsHeld, Derived

\* A start reads back only the runs that run: the others are not in memory,
\* and those that run are as much derived as they were.
LEMMA RestartInv ==
  ASSUME RunOK, restart
  PROVE  RunOK' /\ (row = "cancelled" => row' = "cancelled")
<1>1. run' = (IF row = "running" THEN "running" ELSE "none") /\ UNCHANGED <<row, unseen>>
  BY DEF restart
<1>2. UNCHANGED status
  BY DEF restart, Dep!reconcileBlockedTaskStatuses
<1>3. deriveRunStatus(status)' = deriveRunStatus(status)
  BY <1>2 DEF deriveRunStatus
<1> QED BY <1>1, <1>3 DEF RunOK, RowIsHeld, Derived

\* Every step keeps what the run is, and a cancelled run cancelled.
LEMMA RunOKInductive ==
  RunOK /\ [Next]_vars => RunOK' /\ (row = "cancelled" => row' = "cancelled")
<1> SUFFICES ASSUME RunOK, [Next]_vars
             PROVE  RunOK' /\ (row = "cancelled" => row' = "cancelled")
  OBVIOUS
<1>1. CASE seen(engine) \/ seen(agents) \/ seen(reviewers) \/ seen(users)
           \/ missed(agents \/ reviewers \/ engine \/ \E t \in left : cancels(t)) \/ cancelNext
  BY <1>1, TaskChangeInv
<1>2. CASE createRun
  BY <1>2, CreateInv
<1>3. CASE listRuns
  BY <1>3, ListInv
<1>4. CASE Tick
  <2>1. onTaskStatusChange
    BY <1>4 DEF Tick, enforceTimeouts
  <2> QED BY <2>1, WebhookInv
<1>5. CASE crash \/ (\E t \in Tasks : time(t)) \/ cancelRun \/ UNCHANGED vars
  <2>1. UNCHANGED <<run, row>> /\ UNCHANGED <<status, unseen>>
    BY <1>5 DEF crash, time, cancelRun, vars, taskVars, runVars
  <2> QED BY <2>1, IdleInv
<1>6. CASE restart
  BY <1>6, RestartInv
<1>7. CASE pauseRun \/ resumeRun \/ cancelEnd
  BY <1>7, ControlInv
<1> QED BY <1>1, <1>2, <1>3, <1>4, <1>5, <1>6, <1>7 DEF Next

-----------------------------------------------------------------------------
(* The statuses, and the loop of cancelRun. *)

\* What a round of the engine does: nothing, or one change of the task it looks
\* at, which is a cancellation if a blocker of the task is cancelled.
LEMMA EngineLook ==
  ASSUME NEW t \in Tasks, Dep!look(t)
  PROVE  /\ t \in work /\ UNCHANGED blockedBy
         /\ \/ status' = status /\ work' = work \ {t}
            \/ Dep!setStatus(t, "cancelled", work \ {t})
            \/ /\ \A b \in blockedBy[t] : status[b] # "cancelled"
               /\ \E to \in {"in_progress", "failed"} : Dep!setStatus(t, to, work \ {t})
<1>1. t \in work /\ UNCHANGED blockedBy
  BY DEF Dep!look
<1>2. CASE status[t] = "blocked" /\ blockedBy[t] # {}
  <2>1. Dep!evaluateBlockedDependent(t, work \ {t})
    BY <1>2 DEF Dep!look
  <2>2. CASE Dep!dead(t)
    BY <1>1, <2>1, <2>2 DEF Dep!evaluateBlockedDependent, Dep!cancelDependent
  <2>3. CASE ~Dep!dead(t)
    <3>1. \A b \in blockedBy[t] : status[b] # "cancelled"
      BY <2>3 DEF Dep!dead
    <3>2. \/ status' = status /\ work' = work \ {t}
          \/ Dep!setStatus(t, "in_progress", work \ {t})
          \/ Dep!setStatus(t, "failed", work \ {t})
      BY <2>1, <2>3 DEF Dep!evaluateBlockedDependent, Dep!autoFailBlockedDependent
    <3> QED BY <1>1, <3>1, <3>2
  <2> QED BY <2>2, <2>3
<1>3. CASE ~(status[t] = "blocked" /\ blockedBy[t] # {}) /\ status[t] = "failed"
  <2>1. Dep!recoverAutoFailedDependent(t, work \ {t})
    BY <1>3 DEF Dep!look
  <2>2. \/ status' = status /\ work' = work \ {t}
        \/ Dep!satisfied(t) /\ Dep!setStatus(t, "in_progress", work \ {t})
    BY <2>1 DEF Dep!recoverAutoFailedDependent
  <2>3. Dep!satisfied(t) => \A b \in blockedBy[t] : status[b] # "cancelled"
    BY DEF Dep!satisfied
  <2> QED BY <1>1, <2>2, <2>3
<1>4. CASE ~(status[t] = "blocked" /\ blockedBy[t] # {}) /\ status[t] # "failed"
  <2>1. work' = work \ {t} /\ UNCHANGED <<status, expired, mark>>
    BY <1>4 DEF Dep!look
  <2> QED BY <1>1, <2>1
<1> QED BY <1>2, <1>3, <1>4

\* A change of one status at most.
OneStatus == status' = status \/ \E t \in Tasks : \E to : status' = [status EXCEPT ![t] = to]

\* Such a change keeps the statuses a function on the tasks.
LEMMA OneStatusFn == ASSUME StatusFn, OneStatus PROVE StatusFn'
BY DEF StatusFn, OneStatus

\* Whatever moves the tasks changes one status at a time.
LEMMA TasksMoveSingly ==
  ASSUME \/ engine \/ agents \/ reviewers \/ users \/ (\E t \in left : cancels(t))
         \/ \E t \in Tasks : Dep!updateTaskStatus(t, "failed"),
         left \subseteq Tasks
  PROVE  OneStatus
<1>1. ASSUME NEW t \in Tasks, NEW to, NEW W, Dep!setStatus(t, to, W) PROVE OneStatus
  BY <1>1 DEF Dep!setStatus, OneStatus
<1>2. ASSUME NEW t \in Tasks, Dep!look(t) PROVE OneStatus
  <2>1. CASE status' = status
    BY <2>1 DEF OneStatus
  <2>2. CASE \E to \in {"cancelled", "in_progress", "failed"} : Dep!setStatus(t, to, work \ {t})
    BY <1>1, <2>2
  <2> QED BY <1>2, <2>1, <2>2, EngineLook
<1>3. ASSUME NEW t \in Tasks, Dep!windowPasses(t) \/ Dep!reevaluateBlockedDependents PROVE OneStatus
  BY <1>3 DEF Dep!windowPasses, Dep!reevaluateBlockedDependents, OneStatus
<1>4. ASSUME NEW t \in Tasks, NEW to, Dep!updateTaskStatus(t, to) \/ Dep!cancelTask(t) PROVE OneStatus
  BY <1>1, <1>4 DEF Dep!updateTaskStatus, Dep!cancelTask
<1>5. CASE engine
  <2>1. PICK t \in Tasks : TRUE
    BY WorkflowAssumption
  <2> QED BY <1>2, <1>3, <1>5, <2>1 DEF engine
<1>6. CASE agents \/ reviewers \/ users \/ \E t \in Tasks : Dep!updateTaskStatus(t, "failed")
  BY <1>4, <1>6 DEF agents, reviewers, reviewer, users
<1>7. ASSUME NEW t \in left, cancels(t) PROVE OneStatus
  BY <1>4, <1>7 DEF cancels, taskVars, OneStatus
<1> QED BY <1>5, <1>6, <1>7

\* A run that has a cancelled step is not completed.
LEMMA NotCompleted ==
  ASSUME NEW S, NEW t \in Tasks, S[t] = "cancelled"
  PROVE  deriveRunStatus(S) # "completed"
BY DEF deriveRunStatus

\* The webhook stores what it derives from a change, or nothing.
LEMMA WebhookRow ==
  ASSUME onTaskStatusChange
  PROVE  row' = row \/ (row' = deriveRunStatus(status') /\ status' # status)
BY DEF onTaskStatusChange, Changed

\* A cancellation leaves every task ended that had ended, puts only dependents
\* of cancelled tasks before the engine, and does not complete the run.
LEMMA CancelKeepsLoop ==
  ASSUME StatusFn, DeadWork, UNCHANGED blockedBy, NEW t \in Tasks, NEW W \in SUBSET work,
         Dep!setStatus(t, "cancelled", W)
  PROVE  /\ \A u \in Tasks : status'[u] = IF u = t THEN "cancelled" ELSE status[u]
         /\ DeadWork'
         /\ deriveRunStatus(status') # "completed"
<1>1. \A u \in Tasks : status'[u] = IF u = t THEN "cancelled" ELSE status[u]
  BY DEF Dep!setStatus, StatusFn
<1>2. work' = W \union {d \in Tasks \ {t} : t \in blockedBy[d]}
  BY DEF Dep!setStatus, Dep!propagates, Dep!dependents
<1>3. DeadWork'
  <2> SUFFICES ASSUME NEW u \in work'
               PROVE  \E b \in Tasks : b \in blockedBy'[u] /\ status'[b] = "cancelled"
    BY DEF DeadWork
  <2>1. CASE u \in W
    <3>1. PICK b \in Tasks : b \in blockedBy[u] /\ status[b] = "cancelled"
      BY <2>1 DEF DeadWork
    <3> QED BY <1>1, <3>1
  <2>2. CASE t \in blockedBy[u]
    BY <1>1, <2>2
  <2> QED BY <1>2, <2>1, <2>2
<1> QED BY <1>1, <1>3, NotCompleted

\* What else may happen while the loop runs, and ends it.
LEMMA LoopSteps ==
  ASSUME Inv, [Next]_vars, cancelling
  PROVE  \/ cancelling' /\ seen(\E t \in Tasks : Dep!look(t))
         \/ cancelling' /\ cancelNext
         \/ cancelling' /\ UNCHANGED <<status, blockedBy, work, row, up, left>>
         \/ ~cancelling' /\ ~up' /\ row' = row
         \/ cancelEnd
<1>1. up /\ ~Free /\ ~Ready
  BY DEF Inv, LoopOK, Free, Ready
<1>2. ~seen(agents) /\ ~seen(reviewers) /\ ~seen(users)
  BY <1>1 DEF seen, taskStep, agents, reviewers, reviewer, users
<1>3. ~createRun /\ ~listRuns /\ ~Tick /\ ~restart /\ ~pauseRun /\ ~resumeRun /\ ~cancelRun
  BY <1>1 DEF createRun, listRuns, Tick, enforceTimeouts, restart, pauseRun, resumeRun, control, cancelRun
<1>4. CASE seen(engine)
  <2>1. engine <=> \E t \in Tasks : Dep!look(t)
    BY <1>1 DEF engine
  <2> QED BY <1>4, <2>1 DEF seen, taskStep, loop
<1>5. CASE missed(agents \/ reviewers \/ engine \/ \E t \in left : cancels(t)) \/ crash
  BY <1>5 DEF missed, crash, runVars
<1>6. CASE (\E t \in Tasks : time(t)) \/ UNCHANGED vars
  BY <1>6 DEF time, vars, taskVars, runVars, loop
<1>7. CASE cancelNext
  BY <1>7 DEF cancelNext
<1> QED BY <1>2, <1>3, <1>4, <1>5, <1>6, <1>7 DEF Next

\* Every step keeps what the loop relies on.
LEMMA LoopInv ==
  ASSUME Inv, left \subseteq Tasks, [Next]_vars
  PROVE  LoopOK'
<1> SUFFICES ASSUME cancelling'
             PROVE  /\ up' /\ DeadWork' /\ row' # "completed"
                    /\ \A t \in Tasks \ left' : status'[t] \in TERMINAL_STATUSES
  BY DEF LoopOK
<1>0. StatusFn
  BY DEF Inv
<1>1. CASE ~cancelling
  <2>1. cancelRun
    BY <1>1 DEF Next, seen, missed, createRun, listRuns, Tick, enforceTimeouts, crash, restart, time,
                pauseRun, resumeRun, control, cancelNext, cancels, taskStep, cancelEnd, loop, vars
  <2>2. /\ up' /\ work' = {} /\ left' = Tasks
        /\ row' = row /\ Held = "running"
    BY <2>1 DEF cancelRun, Ready, Free, taskVars, runVars
  <2>3. row' # "completed"
    BY <2>2 DEF Inv, RunOK, RowIsHeld, Held
  <2> QED BY <2>2, <2>3 DEF DeadWork
<1>2. CASE cancelling
  <2>0. /\ up /\ DeadWork /\ row # "completed"
        /\ \A t \in Tasks \ left : status[t] \in TERMINAL_STATUSES
    BY <1>2 DEF Inv, LoopOK
  <2>1. CASE UNCHANGED <<status, blockedBy, work, row, up, left>>
    BY <2>0, <2>1 DEF DeadWork
  <2>2. ASSUME seen(\E t \in Tasks : Dep!look(t)) PROVE /\ up' /\ DeadWork' /\ row' # "completed"
                    /\ \A t \in Tasks \ left' : status'[t] \in TERMINAL_STATUSES
    <3>1. PICK t \in Tasks : Dep!look(t)
      BY <2>2 DEF seen, taskStep
    <3>2. onTaskStatusChange /\ UNCHANGED <<up, left>>
      BY <2>2 DEF seen, loop
    <3>3. t \in work /\ UNCHANGED blockedBy
      BY <3>1, EngineLook
    <3>4. ~\A b \in blockedBy[t] : status[b] # "cancelled"
      BY <2>0, <3>3 DEF DeadWork
    <3>5. CASE status' = status /\ work' = work \ {t}
      <4>1. row' = row
        BY <3>2, <3>5, WebhookRow
      <4> QED BY <2>0, <3>2, <3>3, <3>5, <4>1 DEF DeadWork
    <3>6. CASE Dep!setStatus(t, "cancelled", work \ {t})
      <4>1. /\ \A u \in Tasks : status'[u] = IF u = t THEN "cancelled" ELSE status[u]
            /\ DeadWork' /\ deriveRunStatus(status') # "completed"
        BY <1>0, <2>0, <3>3, <3>6, CancelKeepsLoop
      <4>2. row' # "completed"
        BY <2>0, <3>2, <4>1, WebhookRow
      <4> QED BY <2>0, <3>2, <4>1, <4>2 DEF TERMINAL_STATUSES
    <3> QED BY <3>1, <3>4, <3>5, <3>6, EngineLook
  <2>3. ASSUME cancelNext PROVE /\ up' /\ DeadWork' /\ row' # "completed"
                    /\ \A t \in Tasks \ left' : status'[t] \in TERMINAL_STATUSES
    <3>1. PICK t \in left : taskStep(cancels(t)) /\ onTaskStatusChange /\ left' = left \ {t} /\ UNCHANGED up
      BY <2>3 DEF cancelNext
    <3>2. t \in Tasks /\ work = {} /\ cancels(t)
      BY <3>1 DEF taskStep, cancels
    <3>3. CASE status[t] \in TERMINAL_STATUSES
      <4>1. UNCHANGED <<status, blockedBy, work>>
        BY <3>2, <3>3 DEF cancels, taskVars
      <4>2. row' = row
        BY <3>1, <4>1, WebhookRow
      <4> QED BY <2>0, <3>1, <3>3, <4>1, <4>2 DEF DeadWork
    <3>4. CASE status[t] \notin TERMINAL_STATUSES
      <4>1. Dep!setStatus(t, "cancelled", {}) /\ UNCHANGED blockedBy
        BY <3>2, <3>4 DEF cancels, Dep!cancelTask
      <4>2. /\ \A u \in Tasks : status'[u] = IF u = t THEN "cancelled" ELSE status[u]
            /\ DeadWork' /\ deriveRunStatus(status') # "completed"
        BY <1>0, <2>0, <3>2, <4>1, CancelKeepsLoop
      <4>3. row' # "completed"
        BY <2>0, <3>1, <4>2, WebhookRow
      <4> QED BY <2>0, <3>1, <4>2, <4>3 DEF TERMINAL_STATUSES
    <3> QED BY <3>3, <3>4
  <2>4. ~cancelEnd
    BY DEF cancelEnd
  <2> QED BY <1>2, <2>1, <2>2, <2>3, <2>4, LoopSteps
<1> QED BY <1>1, <1>2

\* Every step keeps the statuses a function on the tasks.
LEMMA StatusInv ==
  ASSUME StatusFn, left \subseteq Tasks, [Next]_vars
  PROVE  StatusFn'
<1>1. CASE seen(engine) \/ seen(agents) \/ seen(reviewers) \/ seen(users)
           \/ missed(agents \/ reviewers \/ engine \/ \E t \in left : cancels(t)) \/ cancelNext \/ Tick
  <2>1. \/ engine \/ agents \/ reviewers \/ users \/ (\E t \in left : cancels(t))
        \/ \E t \in Tasks : Dep!updateTaskStatus(t, "failed")
    BY <1>1 DEF seen, missed, taskStep, cancelNext, Tick, enforceTimeouts
  <2> QED BY <2>1, TasksMoveSingly, OneStatusFn
<1>2. CASE createRun \/ pauseRun \/ resumeRun
  BY <1>2 DEF createRun, pauseRun, resumeRun, control, StatusFn
<1>3. CASE listRuns \/ crash \/ restart \/ (\E t \in Tasks : time(t)) \/ cancelRun \/ cancelEnd
           \/ UNCHANGED vars
  <2>1. UNCHANGED status
    BY <1>3 DEF listRuns, crash, restart, time, cancelRun, cancelEnd, vars, taskVars,
                Dep!reconcileBlockedTaskStatuses
  <2> QED BY <2>1 DEF StatusFn
<1> QED BY <1>1, <1>2, <1>3 DEF Next

\* The loop visits tasks of the run only.
LEMMA LeftInv ==
  ASSUME left \subseteq Tasks, [Next]_vars
  PROVE  left' \subseteq Tasks
BY DEF Next, seen, missed, createRun, listRuns, Tick, enforceTimeouts, crash, restart, time,
       pauseRun, resumeRun, control, cancelRun, cancelNext, cancelEnd, loop, vars

\* Every step keeps the invariant.
LEMMA InvInductive == Inv /\ [Next]_vars => Inv'
<1> SUFFICES ASSUME Inv, [Next]_vars PROVE Inv'
  OBVIOUS
<1>1. RunOK /\ StatusFn /\ left \subseteq Tasks
  BY DEF Inv
<1> QED BY <1>1, RunOKInductive, StatusInv, LeftInv, LoopInv DEF Inv

\* Every reachable state of a run satisfies the invariant.
THEOREM RunInvariant == Spec => []Inv
BY InitInv, InvInductive, PTL DEF Spec

\* A run in memory that no user paused or cancelled has, in memory and in its
\* row, the status its tasks imply, over updates, lists, crashes and restarts.
THEOREM RunsAreProjected == Spec => []RunIsProjection
<1>1. Inv => RunIsProjection
  BY DEF Inv, RunOK, RowIsHeld, Derived, RunIsProjection
<1> QED BY <1>1, RunInvariant, PTL

\* What a step may do to a run that is cancelled or being cancelled.
Stays ==
  /\ row = "cancelled" => row' = "cancelled"
  /\ cancelling => row' # "completed"
  /\ cancelling /\ ~cancelling' /\ up' =>
       run' = "cancelled" /\ \A t \in Tasks : status'[t] \in TERMINAL_STATUSES

\* A cancelled run stays cancelled: no update of a task, no list and no
\* restart revives it.  The notifications of its own cancellations never
\* complete it, and a loop that ends leaves it cancelled and its steps ended,
\* for any number of steps and any dependencies.
THEOREM CancelledRunsStay == Spec => CancelledStays
<1>1. Inv /\ [Next]_vars => Stays
  <2> SUFFICES ASSUME Inv, [Next]_vars PROVE Stays
    OBVIOUS
  <2>1. row = "cancelled" => row' = "cancelled"
    BY RunOKInductive DEF Inv
  <2>2. CASE ~cancelling
    BY <2>1, <2>2 DEF Stays
  <2>3. CASE cancelling /\ cancelling'
    <3>1. row' # "completed"
      BY <2>3, InvInductive DEF Inv, LoopOK
    <3> QED BY <2>1, <2>3, <3>1 DEF Stays
  <2>4. CASE cancelling /\ ~cancelling' /\ ~up' /\ row' = row
    BY <2>1, <2>4 DEF Stays, Inv, LoopOK
  <2>5. CASE cancelling /\ cancelEnd
    <3>1. /\ run' = "cancelled" /\ row' = "cancelled"
          /\ left = {} /\ UNCHANGED status
      BY <2>5 DEF cancelEnd, putRun, taskVars
    <3>2. \A t \in Tasks : status[t] \in TERMINAL_STATUSES
      BY <2>5, <3>1 DEF Inv, LoopOK
    <3> QED BY <2>1, <3>1, <3>2 DEF Stays
  <2> QED BY <2>2, <2>3, <2>4, <2>5, LoopSteps
<1>2. CancelledStays <=> [][Stays]_vars
  BY DEF CancelledStays, Stays
<1> QED BY <1>1, <1>2, RunInvariant, PTL DEF Spec
=============================================================================
