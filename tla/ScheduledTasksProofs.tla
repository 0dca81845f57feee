------------------------ MODULE ScheduledTasksProofs ------------------------
(***************************************************************************)
(* Proof that a one-shot schedule fires at most once by itself and that    *)
(* every run that is counted starts a round, for any kinds of schedules,   *)
(* intervals and limits.                                                   *)
(***************************************************************************)
EXTENDS ScheduledTasks, TLAPS

\* A one-shot schedule that has fired has no next occurrence.
FiredIsConsumed == kind = "once" /\ next # {} => autos = 0

\* Between the count of a run and the reset the task can still be reset.
CountedIsResettable == firing # "no" => status \in resettable

\* The inductive invariant.
Inv ==
  /\ TypeOK
  /\ OneShotOnce
  /\ FiredIsConsumed
  /\ CountedIsResettable

Nexts == {{}} \union {{n} : n \in 0..Interval}

-----------------------------------------------------------------------------
\* The next occurrences are at most Interval away; one-shot schedules have none.
LEMMA NextRuns ==
  /\ \A k : computeNextRunFromConfig(k) \subseteq Nexts
  /\ computeNextRunFromConfig("once") = {{}}
BY ScheduleAssumption DEF computeNextRunFromConfig, Nexts

\* A schedule is created with no run and no fire.
LEMMA InitInv == Init => Inv
<1> SUFFICES ASSUME Init PROVE Inv
  OBVIOUS
<1>1. next \in Nexts
  BY NextRuns DEF Init, Nexts
<1>2. TypeOK
  <2>1. kind \in AllKinds /\ max \in 0..MaxRuns /\ runs \in 0..(MaxRuns + 1) /\ autos \in 0..2
    BY ScheduleAssumption DEF Init
  <2>2. /\ status \in Status /\ paused \in BOOLEAN /\ online \in BOOLEAN
        /\ phase \in {"down", "startup", "steady"} /\ timer \in BOOLEAN
        /\ firing \in Firers \union {"no"} /\ lost \in BOOLEAN /\ edited \in BOOLEAN
    BY DEF Init, Status
  <2> QED BY <1>1, <2>1, <2>2 DEF TypeOK, Nexts
<1>3. OneShotOnce /\ FiredIsConsumed /\ CountedIsResettable
  BY DEF Init, OneShotOnce, FiredIsConsumed, CountedIsResettable
<1> QED BY <1>2, <1>3 DEF Inv

\* Counting a run consumes a one-shot schedule.
LEMMA FireInv ==
  ASSUME Inv, NEW who \in {"poll", "timer"}, firing = "no", fireable, status' = status,
         fireScheduledTask(who), UNCHANGED <<online, lost>>,
         phase' \in {"down", "startup", "steady"}, timer' \in BOOLEAN
  PROVE  Inv'
<1>1. CASE consumed \/ ~online
  <2>1. UNCHANGED <<kind, next, max, runs, paused, firing, autos, edited>>
    BY <1>1 DEF fireScheduledTask, nothing, configVars
  <2>2. TypeOK'
    BY <2>1 DEF Inv, TypeOK
  <2> QED BY <2>1, <2>2 DEF Inv, OneShotOnce, FiredIsConsumed, CountedIsResettable
<1>2. CASE ~(consumed \/ ~online)
  <2>1. /\ runs' \in {runs, runs + 1} /\ (runs' = runs + 1 => runs < MaxRuns + 1)
        /\ next' \in computeNextRunFromConfig(kind)
        /\ firing' = who /\ edited' = FALSE
        /\ UNCHANGED <<kind, max, paused>>
        /\ autos' = IF kind = "once" /\ autos < 2 THEN autos + 1 ELSE autos
    <3>1. fired(who)
      BY <1>2 DEF fireScheduledTask
    <3>2. runs' = IF runs < MaxRuns + 1 THEN runs + 1 ELSE runs
      BY <3>1 DEF fired, advanceScheduleConfig
    <3>3. runs' \in {runs, runs + 1} /\ (runs' = runs + 1 => runs < MaxRuns + 1)
      BY <3>2, ScheduleAssumption DEF Inv, TypeOK
    <3> QED BY <3>1, <3>3 DEF fired, advanceScheduleConfig
  <2>2. kind = "once" => autos = 0 /\ next' = {}
    BY <1>2, <2>1, NextRuns DEF consumed, Inv, FiredIsConsumed
  <2>3. next' \in Nexts
    BY <2>1, NextRuns
  <2>4. runs' \in 0..(MaxRuns + 1) /\ autos' \in 0..2
    BY <2>1, <2>2, ScheduleAssumption DEF Inv, TypeOK
  <2>5. TypeOK'
    BY <2>1, <2>3, <2>4 DEF Inv, TypeOK, Nexts, Firers
  <2>6. status \in {"completed", "failed"}
    BY DEF fireable, Inv, TypeOK, Status
  <2>7. CountedIsResettable'
    BY <2>6 DEF CountedIsResettable, resettable
  <2>8. OneShotOnce' /\ FiredIsConsumed'
    BY <2>1, <2>2 DEF OneShotOnce, FiredIsConsumed
  <2> QED BY <2>5, <2>7, <2>8 DEF Inv
<1> QED BY <1>1, <1>2

\* Steps that count no run: the occurrence of a one-shot schedule is kept,
\* brought nearer or given up, and no reset is under way that was not before.
LEMMA NoFireInv ==
  ASSUME Inv, TypeOK', kind' = kind, autos' = autos,
         kind = "once" /\ next = {} => next' = {},
         firing' = "no" \/ (firing' = firing /\ status' = status)
  PROVE  Inv'
<1>1. OneShotOnce' /\ FiredIsConsumed'
  BY DEF Inv, OneShotOnce, FiredIsConsumed
<1>2. CountedIsResettable'
  BY DEF Inv, CountedIsResettable, resettable
<1> QED BY <1>1, <1>2 DEF Inv

\* A poll: it takes a round back, fires the task, or does nothing.
LEMMA PollInv ==
  ASSUME Inv, poll
  PROVE  Inv'
<1>1. /\ firing = "no" /\ phase' = "steady"
      /\ status' = IF reclaims THEN "failed" ELSE status
      /\ IF isDue THEN fireScheduledTask("poll") ELSE nothing
      /\ UNCHANGED <<online, timer, lost>>
  BY DEF poll, Ready
<1>2. CASE isDue
  <2>1. fireable /\ status' = status
    BY <1>1, <1>2 DEF isDue
  <2>2. timer' \in BOOLEAN
    BY <1>1 DEF Inv, TypeOK
  <2> QED BY <1>1, <1>2, <2>1, <2>2, FireInv
<1>3. CASE ~isDue
  <2>1. UNCHANGED <<kind, next, max, runs, paused, firing, autos, edited>>
    BY <1>1, <1>3 DEF nothing, configVars
  <2>2. TypeOK'
    BY <1>1, <2>1 DEF Inv, TypeOK, Status
  <2> QED BY <1>1, <2>1, <2>2, NoFireInv
<1> QED BY <1>2, <1>3

\* The stagger timer looks at the task again before it fires.
LEMMA StaggeredInv ==
  ASSUME Inv, staggered
  PROVE  Inv'
<1>1. /\ firing = "no" /\ timer' = FALSE
      /\ IF paused \/ ~fireable THEN nothing ELSE fireScheduledTask("timer")
      /\ UNCHANGED <<status, online, phase, lost>>
  BY DEF staggered, Ready
<1>2. CASE ~(paused \/ ~fireable)
  <2>1. phase' \in {"down", "startup", "steady"}
    BY <1>1 DEF Inv, TypeOK
  <2> QED BY <1>1, <1>2, <2>1, FireInv
<1>3. CASE paused \/ ~fireable
  <2>1. UNCHANGED <<kind, next, max, runs, paused, firing, autos, edited>>
    BY <1>1, <1>3 DEF nothing, configVars
  <2>2. TypeOK'
    BY <1>1, <2>1 DEF Inv, TypeOK
  <2> QED BY <1>1, <2>1, <2>2, NoFireInv
<1> QED BY <1>2, <1>3

\* The runner starts: it may take a round back, which no reset is about.
LEMMA StartInv ==
  ASSUME Inv, start
  PROVE  Inv'
<1>1. /\ phase' = "startup" /\ timer' = isDue
      /\ status' = IF reclaims THEN "failed" ELSE status
      /\ UNCHANGED <<kind, next, max, runs, paused, online, firing, autos, lost, edited>>
  BY DEF start, configVars, historyVars
<1>2. isDue \in BOOLEAN
  BY DEF isDue
<1>3. TypeOK'
  BY <1>1, <1>2 DEF Inv, TypeOK, Status
<1>4. firing # "no" => ~reclaims
  BY DEF Inv, CountedIsResettable, resettable, reclaims
<1>5. firing' = "no" \/ (firing' = firing /\ status' = status)
  BY <1>1, <1>4
<1> QED BY <1>1, <1>3, <1>5, NoFireInv

\* The reset, and the end of the process.
LEMMA ResetStopInv ==
  ASSUME Inv, resetTaskForRerun \/ stop
  PROVE  Inv'
<1>1. /\ firing' = "no" /\ UNCHANGED <<kind, next, max, runs, paused, online, autos, edited>>
      /\ status' \in {status, "in_progress"} /\ phase' \in {phase, "down"}
      /\ timer' \in {timer, FALSE} /\ lost' \in {lost, TRUE}
  <2>1. CASE resetTaskForRerun
    BY <2>1 DEF resetTaskForRerun, configVars, historyVars
  <2>2. CASE stop
    <3>1. lost \in BOOLEAN
      BY DEF Inv, TypeOK
    <3>2. lost' = (lost \/ firing # "no")
      BY <2>2 DEF stop
    <3>3. lost' \in {lost, TRUE}
      BY <3>1, <3>2
    <3> QED BY <2>2, <3>3 DEF stop, configVars
  <2> QED BY <2>1, <2>2
<1>2. TypeOK
  BY DEF Inv
<1>3. status' \in Status /\ phase' \in {"down", "startup", "steady"}
  BY <1>1, <1>2 DEF TypeOK, Status
<1>4. timer' \in BOOLEAN /\ lost' \in BOOLEAN
  BY <1>1, <1>2 DEF TypeOK
<1>5. TypeOK'
  BY <1>1, <1>2, <1>3, <1>4 DEF TypeOK
<1> QED BY <1>1, <1>5, NoFireInv

\* A change of status re-arms recurring schedules only.
LEMMA StatusInv ==
  ASSUME Inv, NEW to \in Status, updateTaskStatus(to)
  PROVE  Inv'
<1>1. /\ firing = "no" /\ status' = to
      /\ maybeEnsureScheduledNextRun(to)
      /\ paused' = (paused \/ to \in {"cancelled", "archived"})
      /\ UNCHANGED <<kind, max, runs, online, phase, timer, firing, autos, lost, edited>>
  BY DEF updateTaskStatus, Ready, runnerVars, historyVars
<1>2. next' = next \/ (kind # "once" /\ next' \in computeNextRunFromConfig(kind))
  BY <1>1 DEF maybeEnsureScheduledNextRun
<1>3. next' \in Nexts
  BY <1>2, NextRuns DEF Inv, TypeOK, Nexts
<1>4. TypeOK'
  BY <1>1, <1>3 DEF Inv, TypeOK, Nexts
<1> QED BY <1>1, <1>2, <1>4, NoFireInv

\* The other steps of users, agents and time.
LEMMA UserInv ==
  ASSUME Inv, \/ approveTask \/ agentStatus \/ time
              \/ \E p \in BOOLEAN : schedulePause(p)
  PROVE  Inv'
<1>1. CASE approveTask
  <2>1. /\ status' = "completed"
        /\ next' \in IF next = {} \/ (kind # "once" /\ ~exhausted /\ due)
                     THEN computeNextRunFromConfig(kind) ELSE {next}
        /\ UNCHANGED <<kind, max, runs, paused, online, phase, timer, firing, autos, lost, edited>>
        /\ firing = "no"
    BY <1>1 DEF approveTask, Ready, runnerVars, historyVars
  <2>2. next' \in Nexts /\ (kind = "once" /\ next = {} => next' = {})
    BY <2>1, NextRuns DEF Inv, TypeOK, Nexts
  <2>3. TypeOK'
    BY <2>1, <2>2 DEF Inv, TypeOK, Nexts, Status
  <2> QED BY <2>1, <2>2, <2>3, NoFireInv
<1>2. CASE agentStatus
  <2>1. online' = ~online /\ UNCHANGED <<status, kind, next, max, runs, paused, phase,
                                         timer, firing, autos, lost, edited>>
    BY <1>2 DEF agentStatus, configVars, runnerVars, historyVars
  <2>2. TypeOK'
    BY <2>1 DEF Inv, TypeOK
  <2> QED BY <2>1, <2>2, NoFireInv
<1>3. CASE time
  <2>1. /\ next # {} /\ next # {0} /\ next' = {n - 1 : n \in next}
        /\ UNCHANGED <<status, kind, max, runs, paused, online, phase, timer, firing,
                       autos, lost, edited>>
    BY <1>3 DEF time, runnerVars, historyVars
  <2>2. PICK n \in 0..Interval : next = {n}
    BY <2>1 DEF Inv, TypeOK
  <2>3. next' = {n - 1} /\ n - 1 \in 0..Interval
    BY <2>1, <2>2, ScheduleAssumption
  <2>4. TypeOK'
    BY <2>1, <2>3 DEF Inv, TypeOK
  <2> QED BY <2>1, <2>4, NoFireInv
<1>4. CASE \E p \in BOOLEAN : schedulePause(p)
  <2>1. /\ paused' \in BOOLEAN
        /\ UNCHANGED <<status, kind, next, max, runs, online, phase, timer, firing,
                       autos, lost, edited>>
    BY <1>4 DEF schedulePause, runnerVars, historyVars
  <2>2. TypeOK'
    BY <2>1 DEF Inv, TypeOK
  <2> QED BY <2>1, <2>2, NoFireInv
<1> QED BY <1>1, <1>2, <1>3, <1>4

\* "Run now" counts a run of a task that can be reset.
LEMMA RunNowInv ==
  ASSUME Inv, runNow
  PROVE  Inv'
<1>1. /\ status \in {"completed", "cancelled", "failed"}
      /\ runs' \in {runs, runs + 1} /\ (runs' = runs + 1 => runs < MaxRuns + 1)
      /\ next' \in computeNextRunFromConfig(kind)
      /\ firing' = "run-now" /\ edited' = FALSE
      /\ UNCHANGED <<kind, max, paused, status, online, phase, timer, autos, lost>>
  <2>1. runs' = IF runs < MaxRuns + 1 THEN runs + 1 ELSE runs
    BY DEF runNow, advanceScheduleConfig
  <2>2. runs' \in {runs, runs + 1} /\ (runs' = runs + 1 => runs < MaxRuns + 1)
    BY <2>1, ScheduleAssumption DEF Inv, TypeOK
  <2> QED BY <2>2 DEF runNow, advanceScheduleConfig
<1>2. next' \in Nexts /\ (kind = "once" => next' = {})
  BY <1>1, NextRuns
<1>3. runs' \in 0..(MaxRuns + 1)
  BY <1>1, ScheduleAssumption DEF Inv, TypeOK
<1>4. TypeOK'
  BY <1>1, <1>2, <1>3 DEF Inv, TypeOK, Nexts, Firers
<1>5. CountedIsResettable'
  BY <1>1 DEF CountedIsResettable, resettable
<1>6. OneShotOnce' /\ FiredIsConsumed'
  BY <1>1, <1>2 DEF Inv, OneShotOnce, FiredIsConsumed
<1> QED BY <1>4, <1>5, <1>6 DEF Inv

\* A new interval makes the schedule recurring, a new limit gives a one-shot
\* occurrence up.
LEMMA UpdateInv ==
  ASSUME Inv, updateScheduleFields
  PROVE  Inv'
<1>1. /\ firing = "no"
      /\ \/ kind' = "every" /\ max' = max /\ autos' = 0
         \/ kind' = kind /\ max' \in (0..MaxRuns) \ {max} /\ autos' = autos
      /\ next' \in computeNextRunFromConfig(kind')
      /\ edited' = TRUE
      /\ UNCHANGED <<status, runs, paused, online, phase, timer, firing, lost>>
  BY DEF updateScheduleFields, Ready, runnerVars
<1>2. next' \in Nexts /\ (kind' = "once" => next' = {})
  BY <1>1, NextRuns
<1>3. TypeOK'
  BY <1>1, <1>2 DEF Inv, TypeOK, Nexts, AllKinds
<1>4. OneShotOnce' /\ FiredIsConsumed' /\ CountedIsResettable'
  BY <1>1, <1>2 DEF Inv, OneShotOnce, FiredIsConsumed, CountedIsResettable
<1> QED BY <1>3, <1>4 DEF Inv

\* The invariant is inductive: every action of Next keeps it.
LEMMA InvInductive == Inv /\ [Next]_vars => Inv'
<1> SUFFICES ASSUME Inv, [Next]_vars PROVE Inv'
  OBVIOUS
<1>1. CASE UNCHANGED vars
  <2>1. UNCHANGED <<status, kind, next, max, runs, paused, online, phase, timer, firing,
                    autos, lost, edited>>
    BY <1>1 DEF vars, configVars, runnerVars, historyVars
  <2>2. TypeOK'
    BY <2>1 DEF Inv, TypeOK
  <2> QED BY <2>1, <2>2, NoFireInv
<1>2. CASE poll
  BY <1>2, PollInv
<1>3. CASE start
  BY <1>3, StartInv
<1>4. CASE staggered
  BY <1>4, StaggeredInv
<1>5. CASE resetTaskForRerun \/ stop
  BY <1>5, ResetStopInv
<1>6. ASSUME NEW to \in Status, updateTaskStatus(to) PROVE Inv'
  BY <1>6, StatusInv
<1>7. CASE work
  <2>1. \E to \in {"review", "failed"} : updateTaskStatus(to)
    BY <1>7 DEF work
  <2> QED BY <2>1, <1>6 DEF Status
<1>8. CASE runNow
  BY <1>8, RunNowInv
<1>9. CASE updateScheduleFields
  BY <1>9, UpdateInv
<1>10. CASE approveTask \/ agentStatus \/ time \/ \E p \in BOOLEAN : schedulePause(p)
  BY <1>10, UserInv
<1>11. CASE UserSteps
  BY <1>11, <1>6, <1>10 DEF UserSteps
<1> QED BY <1>1, <1>2, <1>3, <1>4, <1>5, <1>7, <1>8, <1>9, <1>10, <1>11 DEF Next

\* Every reachable state of a schedule satisfies the invariant.
THEOREM ScheduleInvariant == Spec => []Inv
BY InitInv, InvInductive, PTL DEF Spec

\* A one-shot schedule fires at most once by itself, over polls, stagger
\* timers, restarts and whatever users do to the task.
THEOREM OneShotFiresOnce == Spec => []OneShotOnce
<1>1. Inv => OneShotOnce
  BY DEF Inv
<1> QED BY <1>1, ScheduleInvariant, PTL

\* A run that is counted starts a round, unless the process ends between the
\* two writes: only the reset takes the mark away, of a task it can reset.
THEOREM CountedRunsStart == Spec => CountedRunStarts
<1>1. Inv /\ [Next]_vars =>
        (firing # "no" /\ firing' = "no" /\ phase' # "down"
           => status # "in_progress" /\ status' = "in_progress")
  <2> SUFFICES ASSUME Inv, [Next]_vars, firing # "no", firing' = "no", phase' # "down"
               PROVE  status # "in_progress" /\ status' = "in_progress"
    OBVIOUS
  <2>1. ~Ready
    BY DEF Ready
  <2>2. ~(poll \/ staggered \/ approveTask \/ runNow \/ updateScheduleFields)
    BY <2>1 DEF poll, staggered, approveTask, runNow, updateScheduleFields
  <2>3. \A to \in Status : ~updateTaskStatus(to)
    BY <2>1 DEF updateTaskStatus
  <2>4. \A p \in BOOLEAN : ~schedulePause(p)
    BY <2>1 DEF schedulePause
  <2>5. ~work /\ ~UserSteps
    BY <2>2, <2>3 DEF work, UserSteps, Status
  <2>6. ~(start \/ agentStatus \/ time \/ stop \/ UNCHANGED vars)
    BY DEF start, agentStatus, time, stop, vars, runnerVars
  <2>7. resetTaskForRerun
    BY <2>2, <2>4, <2>5, <2>6 DEF Next
  <2>8. status \in resettable
    BY DEF Inv, CountedIsResettable
  <2> QED BY <2>7, <2>8 DEF resetTaskForRerun, resettable
<1> QED BY <1>1, ScheduleInvariant, PTL DEF Spec, CountedRunStarts
=============================================================================
