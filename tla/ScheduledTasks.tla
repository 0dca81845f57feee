--------------------------- MODULE ScheduledTasks ---------------------------
(***************************************************************************)
(* A scheduled task: ScheduledTaskRunner                                   *)
(* (org-manager/src/scheduled-task-runner.ts), the schedule operations of  *)
(* TaskService and of the API.                                             *)
(*                                                                         *)
(* The runner polls: it fires a task whose nextRunAt has passed, takes     *)
(* back a round whose agent is offline, and on start-up arms a timer for   *)
(* an overdue task.  A fire counts the run and moves nextRunAt first and   *)
(* resets the task after that.  SQLite writes at once, so that only a      *)
(* crash can come between the two: while "firing" is set nothing else      *)
(* happens.  The tasks do not share any of this state, so one is modelled; *)
(* it has no blockers (see TaskDependencies).                              *)
(***************************************************************************)
EXTENDS Naturals, FiniteSets, TaskStatus

CONSTANTS
  Kinds,      \* the schedules that users enter, of AllKinds
  Interval,   \* bound: units of time to the next occurrence
  MaxRuns     \* bound: values of maxRuns, and the runs that are counted

\* "every": an interval or a cron expression; "once": runAt; "broken": neither
\* yields a next occurrence.
AllKinds == {"every", "once", "broken"}

ASSUME ScheduleAssumption ==
  Kinds \subseteq AllKinds /\ Interval \in Nat \ {0} /\ MaxRuns \in Nat \ {0}

VARIABLES
  status,     \* task.status
  kind,       \* scheduleConfig: cron, every or runAt
  next,       \* nextRunAt: {n}, n units from now, {0} is past; {} is undefined
  max,        \* maxRuns (0: undefined)
  runs,       \* currentRuns
  paused,     \* scheduleConfig.paused
  online,     \* the assigned agent is not offline
  phase,      \* the runner is down, in its start-up phase, or past its first poll
  timer,      \* a stagger timer is armed
  firing,     \* who has counted a run and not yet reset the task
  autos,      \* history: automatic fires of the one-shot schedule
  lost,       \* history: a crash came between the count and the reset
  edited      \* history: users changed the schedule since it fired last

configVars == <<kind, next, max, runs, paused>>
runnerVars == <<phase, timer, firing>>
historyVars == <<autos, lost, edited>>
vars == <<status, configVars, online, runnerVars, historyVars>>

Firers == {"poll", "timer", "run-now"}

-----------------------------------------------------------------------------
\* computeNextRunFromConfig: the possible results.
computeNextRunFromConfig(k) ==
  IF k = "every" THEN {{n} : n \in 1..Interval} ELSE {{}}

\* createTask with a schedule; runAt may be past already (computeInitialNextRun).
Init ==
  /\ status = "pending"
  /\ kind \in Kinds
  /\ next \in IF kind = "once" THEN {{n} : n \in 0..Interval}
              ELSE computeNextRunFromConfig(kind)
  /\ max \in 0..MaxRuns
  /\ runs = 0 /\ paused = FALSE
  /\ online = TRUE
  /\ phase = "steady" /\ timer = FALSE /\ firing = "no"
  /\ autos = 0 /\ lost = FALSE /\ edited = FALSE

\* A handler runs while the process is up and no other one is between its
\* two writes.
Ready == phase # "down" /\ firing = "no"

-----------------------------------------------------------------------------
(* The runner. *)

consumed == kind = "once" /\ next = {}
exhausted == max > 0 /\ runs >= max
due == next \subseteq {0}
fireable == status \notin {"in_progress", "review", "blocked", "pending", "archived",
                           "rejected", "cancelled"}

\* advanceScheduleConfig.
advanceScheduleConfig(who) ==
  /\ runs' = IF runs < MaxRuns + 1 THEN runs + 1 ELSE runs
  /\ next' \in computeNextRunFromConfig(kind)
  /\ firing' = who
  /\ edited' = FALSE
  /\ UNCHANGED <<kind, max, paused>>

nothing == UNCHANGED <<configVars, firing, autos, edited>>

fired(who) ==
  /\ advanceScheduleConfig(who)
  /\ autos' = IF kind = "once" /\ autos < 2 THEN autos + 1 ELSE autos

\* Mutants of fireScheduledTask: a consumed runAt is fired again; the schedule
\* is advanced before the agent is looked at.
fireScheduledTaskAgain(who) == IF online THEN fired(who) ELSE nothing
fireScheduledTaskEarly(who) ==
  IF consumed THEN nothing
  ELSE IF online THEN fired(who)
  ELSE /\ next' \in computeNextRunFromConfig(kind)
       /\ UNCHANGED <<kind, max, runs, paused, firing, autos, edited>>

\* fireScheduledTask up to the reset.
fireScheduledTask(who) == IF consumed \/ ~online THEN nothing ELSE fired(who)

\* Mutant of reclaims: the paused schedule is skipped before the recovery.
reclaimsUnpaused == status = "in_progress" /\ ~online /\ ~exhausted /\ ~consumed /\ ~paused

\* tick: a round whose agent went offline is taken back (reclaimStuckScheduledTask).
reclaims == status = "in_progress" /\ ~online /\ ~exhausted /\ ~consumed

\* tick: the task comes to be fired, or staggered.
isDue == ~exhausted /\ ~consumed /\ ~reclaims /\ due /\ fireable /\ ~paused

\* tick, past the start-up phase.
poll ==
  /\ Ready
  /\ phase' = "steady"
  /\ status' = IF reclaims THEN "failed" ELSE status
  /\ IF isDue THEN fireScheduledTask("poll") ELSE nothing
  /\ UNCHANGED <<online, timer, lost>>

\* start: the first tick arms a timer instead.
start ==
  /\ phase = "down"
  /\ phase' = "startup"
  /\ status' = IF reclaims THEN "failed" ELSE status
  /\ timer' = isDue
  /\ UNCHANGED <<configVars, online, firing, historyVars>>

\* Mutant of staggered: the status is not looked at again.
staggeredBlindly ==
  /\ Ready /\ timer /\ phase = "steady"
  /\ timer' = FALSE
  /\ IF paused THEN nothing ELSE fireScheduledTask("timer")
  /\ UNCHANGED <<status, online, phase, lost>>

\* The stagger timer: at least two minutes, hence past the first poll.
staggered ==
  /\ Ready /\ timer /\ phase = "steady"
  /\ timer' = FALSE
  /\ IF paused \/ ~fireable THEN nothing ELSE fireScheduledTask("timer")
  /\ UNCHANGED <<status, online, phase, lost>>

\* The rest of fireScheduledTask and of run-now: resetTaskForRerun.
resettable == {"completed", "failed"} \union (IF firing = "run-now" THEN {"cancelled"} ELSE {})

resetTaskForRerun ==
  /\ firing # "no"
  /\ firing' = "no"
  /\ status' = IF status \in resettable THEN "in_progress" ELSE status
  /\ UNCHANGED <<configVars, online, phase, timer, historyVars>>

\* stop, or a crash: the timers and what was under way are gone.
stop ==
  /\ phase # "down"
  /\ phase' = "down"
  /\ timer' = FALSE
  /\ firing' = "no"
  /\ lost' = (lost \/ firing # "no")
  /\ UNCHANGED <<status, configVars, online, autos, edited>>

-----------------------------------------------------------------------------
(* The task's life. *)

\* maybeEnsureScheduledNextRun.
maybeEnsureScheduledNextRun(to) ==
  IF to = "completed" /\ kind # "once" /\ ~exhausted /\ due
    THEN next' \in computeNextRunFromConfig(kind)
    ELSE next' = next

\* updateTaskStatus, and what cancelTask and archiveTask do to the schedule.
updateTaskStatus(to) ==
  /\ Ready
  /\ to \in transitions[status]
  /\ status' = to
  /\ maybeEnsureScheduledNextRun(to)
  /\ paused' = (paused \/ to \in {"cancelled", "archived"})
  /\ UNCHANGED <<kind, max, runs, online, runnerVars, historyVars>>

\* approveTask without "run now": the task waits for its first occurrence.
approveTask ==
  /\ Ready
  /\ status = "pending"
  /\ status' = "completed"
  /\ next' \in IF next = {} \/ (kind # "once" /\ ~exhausted /\ due)
                 THEN computeNextRunFromConfig(kind) ELSE {next}
  /\ UNCHANGED <<kind, max, runs, paused, online, runnerVars, historyVars>>

\* approveTask with "run now", rejectTask; users pause, resume, cancel, archive
\* and reopen; reviewers accept or send back.
UserSteps ==
  \/ approveTask
  \/ \E to \in Status \ {"failed", "review"} :
       /\ status = "pending" => to \in {"in_progress", "rejected", "cancelled"}
       /\ updateTaskStatus(to)

\* The agent works on the round, submits it, or the execution fails.
work ==
  /\ online
  /\ status = "in_progress"
  /\ \E to \in {"review", "failed"} : updateTaskStatus(to)

agentStatus ==
  /\ online' = ~online
  /\ UNCHANGED <<status, configVars, runnerVars, historyVars>>

time ==
  /\ next # {} /\ next # {0}
  /\ next' = {n - 1 : n \in next}
  /\ UNCHANGED <<status, kind, max, runs, paused, online, runnerVars, historyVars>>

-----------------------------------------------------------------------------
(* The schedule endpoints. *)

schedulePause(p) ==
  /\ Ready
  /\ paused # p
  /\ p \/ status \notin {"archived", "rejected"}
  /\ paused' = p
  /\ UNCHANGED <<status, kind, next, max, runs, online, runnerVars, historyVars>>

runNow ==
  /\ Ready
  /\ status \in {"completed", "cancelled", "failed"}
  /\ advanceScheduleConfig("run-now")
  /\ UNCHANGED <<status, online, phase, timer, autos, lost>>

\* updateScheduleFields: a new interval, or a new limit.
updateScheduleFields ==
  /\ Ready
  /\ \/ kind' = "every" /\ max' = max /\ autos' = 0
     \/ kind' = kind /\ max' \in (0..MaxRuns) \ {max} /\ autos' = autos
  /\ next' \in computeNextRunFromConfig(kind')
  /\ edited' = TRUE
  /\ UNCHANGED <<status, runs, paused, online, runnerVars, lost>>

-----------------------------------------------------------------------------
Next ==
  \/ poll \/ start \/ staggered \/ resetTaskForRerun \/ stop
  \/ UserSteps \/ work \/ agentStatus \/ time
  \/ \E p \in BOOLEAN : schedulePause(p)
  \/ runNow \/ updateScheduleFields

Spec == Init /\ [][Next]_vars

\* The process is started again and polls, time passes, a handler ends.  The
\* agent is online at some poll if it is online again and again.
FairSpec ==
  /\ Spec
  /\ WF_vars(start) /\ WF_vars(resetTaskForRerun) /\ WF_vars(time)
  /\ SF_vars(poll /\ online) /\ SF_vars(poll /\ ~online)

-----------------------------------------------------------------------------
\* Every variable has a value of its kind.
TypeOK ==
  /\ status \in Status
  /\ kind \in AllKinds
  /\ next \in {{}} \union {{n} : n \in 0..Interval}
  /\ max \in 0..MaxRuns /\ runs \in 0..(MaxRuns + 1)
  /\ paused \in BOOLEAN /\ online \in BOOLEAN
  /\ phase \in {"down", "startup", "steady"} /\ timer \in BOOLEAN
  /\ firing \in Firers \union {"no"}
  /\ autos \in 0..2 /\ lost \in BOOLEAN /\ edited \in BOOLEAN

\* A one-shot schedule fires at most once by itself, over polls, stagger
\* timers, restarts and whatever users do to the task.
OneShotOnce == kind = "once" => autos <= 1

\* Every run that is counted starts a round: maxRuns are not used up by fires
\* of a task that already runs, waits for a review or was cancelled meanwhile.
CountedRunStarts ==
  [][firing # "no" /\ firing' = "no" /\ phase' # "down"
       => status # "in_progress" /\ status' = "in_progress"]_vars

\* A round that is due runs if the agent is online again and again while the process is up, unless
\* users change the schedule or the task, or the one crash window loses it.
DueRoundRuns ==
  []<>(online /\ Ready) =>
    ((isDue /\ ~lost /\ ~edited) ~> \/ status = "in_progress" \/ lost \/ paused \/ ~fireable
                         \/ exhausted \/ edited)

\* A round of an unlimited recurring schedule does not stay in progress while
\* its agent is offline, paused schedules included.
StuckReclaimed ==
  (status = "in_progress" /\ kind = "every" /\ max = 0 /\ ~online)
     ~> (status # "in_progress" \/ kind # "every" \/ max # 0 \/ online)

=============================================================================
