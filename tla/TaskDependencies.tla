-------------------------- MODULE TaskDependencies --------------------------
(***************************************************************************)
(* The dependency engine of TaskService: what a change of one task does to *)
(* the tasks it blocks (org-manager/src/task-service.ts).                  *)
(*                                                                         *)
(* A status change re-evaluates the dependents at once, and their changes  *)
(* re-evaluate theirs.  This runs without an await: "work" holds the tasks *)
(* that the running call still looks at, and nothing else happens before   *)
(* it is empty.  A failed blocker may recover for a while; that the window *)
(* has passed is noticed only by the periodic pass.                        *)
(***************************************************************************)
EXTENDS Naturals, FiniteSets, TaskStatus

CONSTANTS
  Tasks,      \* identities that tasks may get
  MaxBlockers \* bound: blockers of one task

ASSUME DependencyAssumption == IsFiniteSet(Tasks) /\ MaxBlockers \in Nat

VARIABLES
  status,     \* task.status ("none": not created)
  blockedBy,  \* task.blockedBy
  expired,    \* the failed tasks whose recovery window has passed
  mark,       \* the last DEPENDENCY_AUTO_FAIL/RECOVER mark in task.notes
  work,       \* the tasks that the running propagation still looks at
  calm,       \* history: nothing but the periodic pass has happened since it began
  own,        \* history: the tasks whose failure is their own
  edited,     \* history: the failed tasks whose blockers were edited since
  changed     \* history: the tasks that the running propagation has changed

vars == <<status, blockedBy, expired, mark, work, calm, own, edited, changed>>

Init ==
  /\ status = [t \in Tasks |-> "none"]
  /\ blockedBy = [t \in Tasks |-> {}]
  /\ expired = {}
  /\ mark = [t \in Tasks |-> "none"]
  /\ work = {}
  /\ calm = FALSE
  /\ own = {}
  /\ edited = {}
  /\ changed = {}

-----------------------------------------------------------------------------
\* areBlockersSatisfied.
satisfied(t) == \A b \in blockedBy[t] : status[b] \in {"completed", "archived"}

\* blockerVerdict: "dead" and "failed-terminal"; every other blocker waits.
dead(t) == \E b \in blockedBy[t] : status[b] = "cancelled"
failedTerminal(t) == \E b \in blockedBy[t] : status[b] = "failed" /\ b \in expired

dependents(t) == {d \in Tasks \ {t} : t \in blockedBy[d]}

\* Mutant of propagates: a cancelled task does not look at its dependents.
propagatesNoCancel(to) == to \in {"completed", "failed", "archived"}

\* maybeCheckDependents.
propagates(to) == to \in {"completed", "failed", "cancelled", "archived"}

\* updateTaskStatus of t, with the rest W of the running propagation.
setStatus(t, to, W) ==
  /\ status' = [status EXCEPT ![t] = to]
  /\ expired' = expired \ {t}
  /\ work' = W \union (IF propagates(to) THEN dependents(t) ELSE {})

-----------------------------------------------------------------------------
(***************************************************************************)
(* The engine.                                                             *)
(***************************************************************************)
cancelDependent(t, W) ==
  /\ setStatus(t, "cancelled", W)
  /\ mark' = [mark EXCEPT ![t] = "fail"]

autoFailBlockedDependent(t, W) ==
  /\ setStatus(t, "failed", W)
  /\ mark' = [mark EXCEPT ![t] = "fail"]

\* Mutant of recoverAutoFailedDependent: the blockers are not asked again.
recoverAutoFailedDependentAnyway(t, W) ==
  IF mark[t] = "fail" /\ blockedBy[t] # {}
    THEN /\ setStatus(t, "in_progress", W)
         /\ mark' = [mark EXCEPT ![t] = "recover"]
    ELSE work' = W /\ UNCHANGED <<status, expired, mark>>

\* isDependencyAutoFailed asks for the last mark in the notes, which stays
\* there when the task is reopened and runs again.
recoverAutoFailedDependent(t, W) ==
  IF mark[t] = "fail" /\ blockedBy[t] # {} /\ satisfied(t)
    THEN /\ setStatus(t, "in_progress", W)
         /\ mark' = [mark EXCEPT ![t] = "recover"]
    ELSE work' = W /\ UNCHANGED <<status, expired, mark>>

evaluateBlockedDependent(t, W) ==
  IF dead(t) THEN cancelDependent(t, W)
  ELSE IF satisfied(t)
    THEN setStatus(t, "in_progress", W) /\ UNCHANGED mark
  ELSE IF failedTerminal(t) THEN autoFailBlockedDependent(t, W)
  ELSE work' = W /\ UNCHANGED <<status, expired, mark>>

\* Mutant of look: a failed task stays failed.
lookNoRecovery(t) ==
  /\ t \in work
  /\ IF status[t] = "blocked" /\ blockedBy[t] # {}
       THEN evaluateBlockedDependent(t, work \ {t})
       ELSE work' = work \ {t} /\ UNCHANGED <<status, expired, mark>>
  /\ UNCHANGED blockedBy

\* One round of the loops of checkDependentTasks, reevaluateBlockedDependents
\* and reconcileBlockedTaskStatuses.
look(t) ==
  /\ t \in work
  /\ LET W == work \ {t}
     IN IF status[t] = "blocked" /\ blockedBy[t] # {}
          THEN evaluateBlockedDependent(t, W)
        ELSE IF status[t] = "failed"
          THEN recoverAutoFailedDependent(t, W)
        ELSE work' = W /\ UNCHANGED <<status, expired, mark>>
  /\ UNCHANGED blockedBy

\* The periodic pass of startTimeoutChecker.
reevaluateBlockedDependents ==
  /\ work = {}
  /\ work' = {t \in Tasks : status[t] = "blocked" /\ blockedBy[t] # {}}
  /\ UNCHANGED <<status, blockedBy, expired, mark>>

\* The process is started again, whatever it was doing: loadFromDB,
\* reconcileBlockedTaskStatuses.
reconcileBlockedTaskStatuses ==
  /\ work' = {t \in Tasks : \/ status[t] = "blocked" /\ blockedBy[t] # {}
                            \/ status[t] = "failed" /\ mark[t] = "fail"}
  /\ UNCHANGED <<status, blockedBy, expired, mark>>

-----------------------------------------------------------------------------
(***************************************************************************)
(* Users, agents and time.                                                 *)
(***************************************************************************)
Exists == {t \in Tasks : status[t] # "none"}

\* createTask: blockers must exist; a task of the automatic tier starts or
\* waits for its blockers, any other one awaits its approval.
createTask(t, B, auto) ==
  /\ work = {}
  /\ status[t] = "none"
  /\ blockedBy' = [blockedBy EXCEPT ![t] = B]
  /\ status' = [status EXCEPT ![t] =
       IF ~auto THEN "pending"
       ELSE IF \A b \in B : status[b] \in {"completed", "archived"}
         THEN "in_progress" ELSE "blocked"]
  /\ UNCHANGED <<expired, mark, work>>

\* approveTask, and rejectTask.
decide(t, approve) ==
  /\ work = {}
  /\ status[t] = "pending"
  /\ setStatus(t, IF ~approve THEN "rejected"
                  ELSE IF satisfied(t) THEN "in_progress" ELSE "blocked", {})
  /\ UNCHANGED <<blockedBy, mark>>

\* cancelTask: from every status that allows it.
cancelTask(t) ==
  /\ work = {}
  /\ status[t] # "none"
  /\ "cancelled" \in transitions[status[t]]
  /\ setStatus(t, "cancelled", {})
  /\ UNCHANGED <<blockedBy, mark>>

\* Every other change: the task runs, is submitted, accepted, sent back,
\* paused, resumed, reopened, archived, fails or times out.
updateTaskStatus(t, to) ==
  /\ work = {}
  /\ status[t] \notin {"none", "pending"}
  /\ to \in transitions[status[t]] \ {"cancelled"}
  /\ status[t] = "blocked" /\ to = "in_progress" => satisfied(t)
  /\ setStatus(t, to, {})
  /\ UNCHANGED <<blockedBy, mark>>

\* What the tasks of B wait for, directly or not.
Reach(B) ==
  LET R[n \in 0..Cardinality(Tasks)] ==
        IF n = 0 THEN B ELSE R[n - 1] \union UNION {blockedBy[b] : b \in R[n - 1]}
  IN R[Cardinality(Tasks)]

\* Mutant of detectBlockedByCycle: only the direct blockers are compared.
detectDirectCycle(t, B) == t \in B

\* detectBlockedByCycle: a search from the proposed blockers comes back to t.
detectBlockedByCycle(t, B) == t \in Reach(B)

\* updateTask with new blockers, and reevaluateBlockedStatus.
updateTask(t, B) ==
  /\ work = {}
  /\ t \in Exists
  /\ ~detectBlockedByCycle(t, B)
  /\ blockedBy' = [blockedBy EXCEPT ![t] = B]
  /\ LET open == \E b \in B : status[b] \notin {"completed", "archived"}
     IN status' = [status EXCEPT ![t] = IF @ = "blocked" /\ ~open THEN "in_progress"
                                        ELSE IF @ = "in_progress" /\ open THEN "blocked"
                                        ELSE @]
  /\ expired' = expired \ {t}
  /\ UNCHANGED <<mark, work>>

\* The recovery window of a failed task passes.
windowPasses(t) ==
  /\ work = {}
  /\ status[t] = "failed"
  /\ t \notin expired
  /\ expired' = expired \union {t}
  /\ UNCHANGED <<status, blockedBy, mark, work>>

BlockerSets == {B \in SUBSET Exists : Cardinality(B) <= MaxBlockers}

\* What users, agents and time do.
Requests ==
  \E t \in Tasks :
    \/ cancelTask(t) \/ windowPasses(t)
    \/ \E approve \in BOOLEAN : decide(t, approve)
    \/ \E to \in Status : updateTaskStatus(t, to)
    \/ \E B \in BlockerSets : updateTask(t, B) \/ \E auto \in BOOLEAN : createTask(t, B, auto)

\* A failure outside a propagation is the task's own; the histories of a task
\* end when it leaves "failed", and those of a propagation with it (a start
\* goes on with what the process was doing).
Remember ==
  LET failed == {t \in Tasks : status'[t] = "failed"}
  IN /\ changed' = IF work = {} \/ work' = {} THEN {}
                   ELSE changed \union {t \in Tasks : status'[t] # status[t]}
     /\ own' = {t \in failed : IF status[t] = "failed" THEN t \in own ELSE work = {}}
     /\ edited' = {t \in failed : t \in edited \/ blockedBy'[t] # blockedBy[t]}

Next ==
  /\ \/ (\E t \in Tasks : look(t)) /\ UNCHANGED calm
     \/ reevaluateBlockedDependents /\ calm' = TRUE
     \/ (Requests \/ reconcileBlockedTaskStatuses) /\ calm' = FALSE
  /\ Remember

Spec == Init /\ [][Next]_vars

-----------------------------------------------------------------------------
\* Every variable has a value of its kind, and only failed tasks expire.
TypeOK ==
  /\ status \in [Tasks -> Status \union {"none"}]
  /\ blockedBy \in [Tasks -> SUBSET Tasks]
  /\ expired \subseteq {t \in Tasks : status[t] = "failed"}
  /\ mark \in [Tasks -> {"none", "fail", "recover"}]
  /\ work \subseteq Tasks
  /\ calm \in BOOLEAN
  /\ own \subseteq Tasks /\ edited \subseteq Tasks /\ changed \subseteq Tasks

\* Whatever edits are made, no tasks wait for each other.
Acyclic == \A t \in Tasks : ~(t \in Reach(blockedBy[t]))

\* The engine has something to do for a blocked task.
Decidable(t) ==
  /\ status[t] = "blocked"
  /\ blockedBy[t] # {}
  /\ dead(t) \/ satisfied(t) \/ failedTerminal(t)

\* One periodic pass leaves nothing for a second one: re-evaluation is
\* idempotent, however the tasks of the pass depend on each other.
Reevaluated == work = {} /\ calm => \A t \in Tasks : ~Decidable(t)

\* A dependent that the engine failed, and nobody edited since, is not left
\* behind once its blockers are done.
Healed ==
  work = {} => \A t \in Tasks : ~(/\ status[t] = "failed" /\ mark[t] = "fail"
                                  /\ t \notin own \union edited /\ blockedBy[t] # {} /\ satisfied(t))

\* A propagation changes only tasks that are blocked or failed when their turn
\* comes, and each of them once, whatever the changes on its way do to the
\* blockers of the others: it does not revive what it has just failed.
ChangedOnce ==
  [][work # {} => \A t \in Tasks :
       status'[t] # status[t] => status[t] \in {"blocked", "failed"} /\ t \notin changed]_vars

\* "Only tasks failed by the engine itself are eligible - a task that failed
\* for its own reasons is never resurrected here" (the comment of
\* recoverAutoFailedDependent).
OwnFailureStays == [][work # {} => \A t \in own : status'[t] = "failed"]_vars

=============================================================================
