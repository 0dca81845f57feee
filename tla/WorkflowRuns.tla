---------------------------- MODULE WorkflowRuns ----------------------------
(***************************************************************************)
(* A workflow run: WorkflowRunner (org-manager/src/workflow-runner.ts) on  *)
(* top of the tasks of the run, which TaskDependencies moves.              *)
(*                                                                         *)
(* createRun makes a task of every step, blocked by the tasks of the steps *)
(* it depends on.  The status of the run is a projection of its tasks,     *)
(* recomputed by the webhook that every status change of a task calls      *)
(* before it returns.  Users pause, resume and cancel the run; the tick of *)
(* the WorkflowScheduler fails the steps that are past their timeout.  The *)
(* run is stored in a row of its own, after the row of the task.  The loop *)
(* of cancelRun has no await: nothing but the engine and a crash comes     *)
(* between its steps.                                                      *)
(***************************************************************************)
EXTENDS Naturals, FiniteSets, TaskStatus

CONSTANTS
  Tasks,      \* the tasks of the run, one for each step
  MaxBlockers,\* bound: dependencies of one step
  Timed,      \* the steps with a timeout
  Contract,   \* the steps with required outputs
  Users,      \* users also act on the tasks and on the run
  Faults      \* the process may crash

\* A template without steps is refused before a run of it starts.
ASSUME WorkflowAssumption ==
  /\ Tasks # {}
  /\ Timed \subseteq Tasks /\ Contract \subseteq Tasks
  /\ Users \in BOOLEAN /\ Faults \in BOOLEAN

VARIABLES
  status, blockedBy, expired, mark, work, \* the variables of TaskDependencies
  run,        \* run.status in WorkflowRunner.runs ("none": not in memory)
  row,        \* workflow_runs.status ("none": no run yet)
  configs,    \* the run in memory has its stepConfigs
  late,       \* the steps whose timeout has passed since they were started
  delivered,  \* the steps whose task has the required deliverables
  up,         \* the process runs
  cancelling, \* the loop of cancelRun runs
  left,       \* the tasks it has not visited yet
  unseen      \* history: the run has not been derived since a task changed

taskVars == <<status, blockedBy, expired, mark, work>>
runVars == <<run, row, configs>>
loop == <<cancelling, left>>
vars == <<taskVars, runVars, late, delivered, up, loop, unseen>>

\* The dependency engine, without its histories.
Dep == INSTANCE TaskDependencies WITH calm <- FALSE, own <- {}, edited <- {}, changed <- {}

TERMINAL_STATUSES == {"completed", "failed", "rejected", "cancelled", "archived"}

Init ==
  /\ Dep!Init
  /\ run = "none" /\ row = "none" /\ configs = FALSE
  /\ late = {} /\ delivered = {}
  /\ up = TRUE /\ unseen = FALSE
  /\ cancelling = FALSE /\ left = {}

-----------------------------------------------------------------------------
deriveRunStatus(S) ==
  IF \A t \in Tasks : S[t] = "completed" THEN "completed"
  ELSE IF \A t \in Tasks : S[t] \in TERMINAL_STATUSES
    THEN IF \E t \in Tasks : S[t] = "failed" THEN "failed"
         ELSE IF \E t \in Tasks : S[t] = "cancelled" THEN "cancelled" ELSE "completed"
  ELSE "running"

Changed == {t \in Tasks : status'[t] # status[t]}
missingOutputs(t) == status'[t] = "completed" /\ t \in Contract /\ t \notin delivered

\* Mutants of onTaskStatusChange: only a run that still runs is looked at; a
\* cancelled run is derived like any other.
onTaskStatusChangeLatched ==
  /\ IF run # "running" \/ Changed = {}
       THEN UNCHANGED <<run, row, unseen>>
       ELSE run' = deriveRunStatus(status') /\ row' = run' /\ unseen' = FALSE
  /\ UNCHANGED configs

onTaskStatusChangeCancelled ==
  /\ IF run \in {"none", "paused"} \/ Changed = {}
       THEN UNCHANGED <<run, row, unseen>>
       ELSE run' = deriveRunStatus(status') /\ row' = run' /\ unseen' = FALSE
  /\ UNCHANGED configs

\* onTaskStatusChange, and applyRunStatus, called at once here; the webhooks of
\* the changes it sets off come first in the code, and the last one of a turn
\* sees the statuses of all.  The task service refuses two of
\* the changes that the runner asks for: attemptStepRetry wants "pending",
\* which no status leads to, so no step is retried; a completed step without
\* its outputs is to be failed, and the run is left as it is.
onTaskStatusChange ==
  /\ IF run \in {"none", "paused", "cancelled"} \/ Changed = {}
       THEN UNCHANGED <<run, row, unseen>>
     ELSE IF \E t \in Changed : missingOutputs(t)
       THEN UNCHANGED <<run, row>> /\ unseen' = TRUE
       ELSE /\ run' = deriveRunStatus(status')
            /\ row' = IF run' # run THEN run' ELSE row
            /\ unseen' = FALSE
  /\ UNCHANGED configs

-----------------------------------------------------------------------------
(* The tasks of the run. *)

\* Other requests wait for the loop of cancelRun.
Free == up /\ ~cancelling

\* The task service goes on with a propagation, or the periodic pass begins.
engine ==
  \/ \E t \in Tasks : Dep!look(t) \/ (Free /\ Dep!windowPasses(t))
  \/ Free /\ Dep!reevaluateBlockedDependents

\* An agent submits or fails its task, or puts it off; the reviewer decides.
agents ==
  \E t \in Tasks : \E to \in {"review", "failed"} :
    Free /\ status[t] = "in_progress" /\ Dep!updateTaskStatus(t, to)

reviewer(t) ==
  \E to \in {"completed", "in_progress"} :
    Free /\ status[t] = "review" /\ Dep!updateTaskStatus(t, to)

reviewers == \E t \in Tasks : reviewer(t)

\* Users pause, resume, reopen, archive and cancel single tasks.
users ==
  \E t \in Tasks :
    /\ Free
    /\ \/ Dep!cancelTask(t)
       \/ \E to \in {"blocked", "in_progress", "archived"} :
            status[t] # "review" /\ Dep!updateTaskStatus(t, to)

\* What the agent of a step delivers is known when it submits the step.
deliver ==
  LET submitted == {t \in Changed \cap Contract : status'[t] = "review"}
  IN \E D \in SUBSET submitted : delivered' = (delivered \ submitted) \union D

taskStep(A) ==
  /\ up
  /\ A
  /\ deliver
  /\ UNCHANGED <<late>>

\* The change is stored, the webhook is called.
seen(A) == taskStep(A) /\ onTaskStatusChange /\ UNCHANGED <<up, loop>>

\* The change is stored, and the process is killed before the webhook stores
\* the run.
missed(A) ==
  /\ Faults
  /\ taskStep(A)
  /\ Changed # {}
  /\ up' = FALSE
  /\ cancelling' = FALSE /\ left' = {}
  /\ unseen' = TRUE
  /\ UNCHANGED runVars

-----------------------------------------------------------------------------
(* The runner. *)

Ready == Free /\ work = {}
DAGs == {B \in [Tasks -> SUBSET Tasks] :
           /\ \A t \in Tasks : Cardinality(B[t]) <= MaxBlockers
           /\ \A S \in (SUBSET Tasks) \ {{}} : \E t \in S : B[t] \cap S = {}}

createRun ==
  /\ Ready
  /\ row = "none"
  /\ blockedBy' \in DAGs
  /\ status' = [t \in Tasks |-> IF blockedBy'[t] = {} THEN "in_progress" ELSE "blocked"]
  /\ run' = "running" /\ row' = "running" /\ configs' = TRUE
  /\ UNCHANGED <<expired, mark, work, late, delivered, up, loop, unseen>>

\* getRun, or loadRun: a run that is read from its row has no stepConfigs.
Held == IF run = "none" THEN row ELSE run

\* The run is put into a status by a user.
putRun(to) ==
  /\ run' = to /\ row' = to
  /\ configs' = (configs /\ run # "none")

\* The loops of pauseRun and resumeRun over the tasks, which leave the run
\* running while they last: none of these changes ends or propagates.
control(from, to, S) ==
  /\ Ready
  /\ Held = from
  /\ putRun(to)
  /\ status' = S
  /\ expired' = {t \in expired : S[t] = "failed"}
  /\ UNCHANGED <<blockedBy, mark, work, late, delivered, up, loop>>

\* createRun makes no pending task, and no status of the matrix leads to one.
pauseRun ==
  /\ control("running", "paused",
             [t \in Tasks |-> IF status[t] \in {"in_progress", "pending"} THEN "blocked" ELSE status[t]])
  /\ UNCHANGED unseen

\* The tasks may have ended meanwhile: the run is running all the same.
resumeRun ==
  /\ control("paused", "running",
             [t \in Tasks |-> IF status[t] = "blocked" /\ Dep!satisfied(t) THEN "in_progress" ELSE status[t]])
  /\ unseen' = (unseen \/ deriveRunStatus(status') # "running")

\* cancelRun, the check before its loop.
cancelRun ==
  /\ Ready
  /\ Held = "running"
  /\ cancelling' = TRUE /\ left' = Tasks
  /\ UNCHANGED <<taskVars, runVars, late, delivered, up, unseen>>

\* One round of the loop: a task that has not ended is cancelled, and the
\* webhook looks at a run that still runs.  The engine goes on with the
\* dependents before the next round.
cancels(t) ==
  /\ cancelling /\ work = {}
  /\ IF status[t] \in TERMINAL_STATUSES THEN UNCHANGED taskVars ELSE Dep!cancelTask(t)

cancelNext ==
  \E t \in left :
    /\ taskStep(cancels(t)) /\ onTaskStatusChange
    /\ left' = left \ {t}
    /\ UNCHANGED <<up, cancelling>>

\* Mutant of cancelEnd: what the webhooks derived meanwhile is taken for done.
cancelEndAsDerived ==
  /\ up /\ cancelling /\ left = {} /\ work = {}
  /\ cancelling' = FALSE
  /\ IF run = "running" THEN putRun("cancelled") ELSE UNCHANGED runVars
  /\ UNCHANGED <<taskVars, left, late, delivered, up, unseen>>

\* The end of cancelRun.
cancelEnd ==
  /\ up /\ cancelling /\ left = {} /\ work = {}
  /\ cancelling' = FALSE
  /\ putRun("cancelled")
  /\ UNCHANGED <<taskVars, left, late, delivered, up, unseen>>

\* listRuns, reconcileRunStatuses: the healed object has no stepConfigs.
listRuns ==
  /\ Ready
  /\ row \notin {"none", "paused", "cancelled"}
  /\ row # deriveRunStatus(status)
  /\ run' = deriveRunStatus(status) /\ row' = run' /\ configs' = FALSE
  /\ unseen' = FALSE
  /\ UNCHANGED <<taskVars, late, delivered, up, loop>>

\* The timeout of a step that has not ended passes.
time(t) ==
  /\ t \in Timed \ late
  /\ status[t] \notin TERMINAL_STATUSES \union {"none"}
  /\ late' = late \union {t}
  /\ UNCHANGED <<taskVars, runVars, delivered, up, loop, unseen>>

\* Mutant of enforceTimeouts: blocked steps are not looked at.
enforceTimeoutsRunning(t) ==
  /\ Ready
  /\ run = "running" /\ configs
  /\ t \in late /\ status[t] = "in_progress"
  /\ Dep!updateTaskStatus(t, "failed")
  /\ onTaskStatusChange
  /\ UNCHANGED <<late, delivered, up, loop>>

\* enforceTimeouts for one step: it fails, unless its status forbids it (a
\* step in review stays there).
enforceTimeouts(t) ==
  /\ Ready
  /\ run = "running" /\ configs
  /\ t \in late /\ status[t] \notin TERMINAL_STATUSES
  /\ Dep!updateTaskStatus(t, "failed")
  /\ onTaskStatusChange
  /\ UNCHANGED <<late, delivered, up, loop>>

crash ==
  /\ Faults
  /\ up
  /\ up' = FALSE
  /\ cancelling' = FALSE /\ left' = {}
  /\ UNCHANGED <<taskVars, runVars, late, delivered, unseen>>

\* The process starts: the task service, then loadFromDB of the runner.
restart ==
  /\ ~up
  /\ up' = TRUE
  /\ Dep!reconcileBlockedTaskStatuses
  /\ run' = IF row = "running" THEN "running" ELSE "none"
  /\ configs' = FALSE
  /\ UNCHANGED <<row, late, delivered, loop, unseen>>

Tick == \E t \in Tasks : enforceTimeouts(t)

Next ==
  \/ seen(engine) \/ seen(agents) \/ seen(reviewers) \/ (Users /\ seen(users))
  \/ missed(agents \/ reviewers \/ engine \/ \E t \in left : cancels(t))
  \/ createRun \/ listRuns \/ Tick \/ crash \/ restart
  \/ \E t \in Tasks : time(t)
  \/ Users /\ (pauseRun \/ resumeRun \/ cancelRun)
  \/ cancelNext \/ cancelEnd

Spec == Init /\ [][Next]_vars

\* The scheduler and the periodic pass tick, time passes, a loop goes on, and
\* the reviewer of every step answers; agents may do nothing at all.
FairSpec ==
  /\ Spec
  /\ WF_vars(seen(engine)) /\ WF_vars(restart)
  /\ WF_vars(cancelNext) /\ WF_vars(cancelEnd)
  /\ \A t \in Tasks : WF_vars(time(t)) /\ SF_vars(enforceTimeouts(t)) /\ SF_vars(seen(reviewer(t)))

-----------------------------------------------------------------------------
\* Every variable has a value of its kind.
TypeOK ==
  /\ Dep!TypeOK
  /\ run \in {"none", "running", "paused", "completed", "failed", "cancelled"}
  /\ row \in {"none", "running", "paused", "completed", "failed", "cancelled"}
  /\ configs \in BOOLEAN
  /\ late \subseteq Timed /\ delivered \subseteq Contract
  /\ up \in BOOLEAN /\ unseen \in BOOLEAN
  /\ cancelling \in BOOLEAN /\ left \subseteq Tasks

\* A run in memory that no user paused or cancelled has the status that its
\* tasks imply, in memory and in its row; only a crash between the two writes,
\* a resume after the last task ended, or a step that completed without its
\* outputs leaves it behind, until the next change or list.
RunIsProjection ==
  up /\ work = {} /\ run \notin {"none", "paused", "cancelled"} /\ ~unseen
    => run = deriveRunStatus(status) /\ row = run

\* A cancelled run stays cancelled, through task updates, lists and restarts.
\* While it is being cancelled, its cancellations come back as notifications to
\* a run that still runs and may end it, but never as completed; a loop that
\* comes to its end leaves the run cancelled and every step of it ended.
CancelledStays ==
  [][/\ row = "cancelled" => row' = "cancelled"
     /\ cancelling => row' # "completed"
     /\ cancelling /\ ~cancelling' /\ up' =>
          run' = "cancelled" /\ \A t \in Tasks : status'[t] \in TERMINAL_STATUSES]_vars

\* A run all of whose steps have a timeout ends, even if no agent answers,
\* while its stepConfigs are held, it was not left behind, and users do not
\* go on to reopen its tasks.
RunEnds ==
  <>[][~users]_vars =>
    (run = "running" ~> run # "running" \/ ~configs \/ unseen \/ Timed # Tasks)

=============================================================================
