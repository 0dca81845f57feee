----------------------- MODULE TaskDependenciesProofs -----------------------
(***************************************************************************)
(* Proofs about the dependency engine, for any number of tasks: a pass of  *)
(* it is idempotent, it heals what it failed, a propagation changes a task *)
(* once, and no edit closes a cycle.                                       *)
(***************************************************************************)
EXTENDS TaskDependencies, FiniteSetTheorems, WellFoundedInduction, TLAPS

\* What the engine failed, and nobody edited since, although its blockers are
\* done.
Healable(t) ==
  /\ status[t] = "failed" /\ mark[t] = "fail"
  /\ t \notin own \union edited
  /\ blockedBy[t] # {} /\ satisfied(t)

\* While a propagation runs, what a pass or a change still has to decide is
\* among the tasks it looks at.
PassOK == calm => \A t \in Tasks : Decidable(t) => t \in work
HealOK == \A t \in Tasks : Healable(t) => t \in work

\* The tasks that exist wait for tasks that exist.
BlockersExist == \A t \in Exists : blockedBy[t] \subseteq Exists

\* What the running propagation has changed gives it nothing to change again:
\* the task is not blocked, and it has not failed with its blockers done.
ChangedOK ==
  \A t \in changed : status[t] # "blocked" /\ (status[t] = "failed" => ~satisfied(t))

\* The invariant of the engine.
Inv == TypeOK /\ PassOK /\ HealOK /\ BlockersExist /\ ChangedOK

Statuses == Status \union {"none"}
Done == {"completed", "archived"}

-----------------------------------------------------------------------------
\* Every change of the matrix leads to a status, and no failed task fails again.
LEMMA Transitions ==
  /\ \A s \in Status : transitions[s] \subseteq Status
  /\ "failed" \notin transitions["failed"]
BY DEF transitions, Status

\* No task, no work.
LEMMA InitInv == Init => Inv
<1> SUFFICES ASSUME Init PROVE Inv
  OBVIOUS
<1>1. TypeOK
  BY DEF Init, TypeOK
<1>2. \A t \in Tasks : status[t] = "none"
  BY DEF Init
<1>3. PassOK /\ HealOK /\ BlockersExist /\ ChangedOK
  BY <1>2 DEF Init, PassOK, HealOK, Healable, BlockersExist, Exists, ChangedOK
<1> QED BY <1>1, <1>3 DEF Inv

\* The histories of the tasks that are still failed are kept.
LEMMA HistoriesKept ==
  ASSUME Remember, NEW u \in Tasks, status'[u] = "failed", u \notin own' \union edited'
  PROVE  /\ u \notin edited /\ blockedBy'[u] = blockedBy[u]
         /\ status[u] = "failed" => u \notin own
         /\ status[u] # "failed" => work # {}
BY DEF Remember

\* The histories are sets of tasks.
LEMMA RememberTypes ==
  ASSUME TypeOK, Remember
  PROVE  own' \subseteq Tasks /\ edited' \subseteq Tasks /\ changed' \subseteq Tasks
BY DEF Remember, TypeOK

\* A step outside a propagation, or one that changes no status, keeps what the
\* propagation has changed settled.
LEMMA StillChangedOK ==
  ASSUME Inv, Remember, work = {} \/ UNCHANGED <<status, blockedBy>>
  PROVE  ChangedOK'
<1>1. CASE work = {}
  BY <1>1 DEF Remember, ChangedOK
<1>2. CASE UNCHANGED <<status, blockedBy>>
  <2>1. changed' \subseteq changed
    BY <1>2 DEF Remember
  <2> QED BY <1>2, <2>1 DEF Inv, ChangedOK, satisfied
<1> QED BY <1>1, <1>2

\* A task that looks at nobody it blocks decides nobody: what another task
\* waits for was there before, unless that task is looked at.
LEMMA OthersUndecided ==
  ASSUME TypeOK, NEW t \in Tasks, NEW to \in Status, NEW W, setStatus(t, to, W),
         UNCHANGED blockedBy, NEW u \in Tasks \ {t}, u \notin work'
  PROVE  /\ status'[u] = status[u]
         /\ Decidable(u)' => Decidable(u)
         /\ satisfied(u)' => satisfied(u)
<1>1. status' = [status EXCEPT ![t] = to] /\ expired' = expired \ {t}
  BY DEF setStatus
<1>2. /\ status'[t] = to
      /\ \A b \in Tasks \ {t} : status'[b] = status[b]
      /\ \A b \in Tasks \ {t} : b \in expired' <=> b \in expired
  BY <1>1 DEF TypeOK
<1>3. t \in blockedBy[u] => ~propagates(to)
  BY DEF setStatus, dependents
<1>4. t \in blockedBy[u] => to \notin {"completed", "failed", "cancelled", "archived"}
  BY <1>3 DEF propagates
<1>5. blockedBy[u] \subseteq Tasks
  BY DEF TypeOK
<1>6. satisfied(u)' => satisfied(u)
  BY <1>2, <1>4, <1>5 DEF satisfied
<1>7. dead(u)' => dead(u)
  BY <1>2, <1>4, <1>5 DEF dead
<1>8. failedTerminal(u)' => failedTerminal(u)
  BY <1>2, <1>4, <1>5 DEF failedTerminal
<1> QED BY <1>2, <1>6, <1>7, <1>8 DEF Decidable

\* A change of status keeps the types.
LEMMA SetStatusTypes ==
  ASSUME TypeOK, NEW t \in Tasks, NEW to \in Status, NEW W \in SUBSET Tasks, setStatus(t, to, W)
  PROVE  /\ status' \in [Tasks -> Statuses]
         /\ expired' \subseteq {u \in Tasks : status'[u] = "failed"}
         /\ work' \subseteq Tasks
<1>1. status' \in [Tasks -> Statuses] /\ \A u \in Tasks \ {t} : status'[u] = status[u]
  BY DEF setStatus, TypeOK, Statuses
<1>2. dependents(t) \subseteq Tasks
  BY DEF dependents
<1> QED BY <1>1, <1>2 DEF setStatus, TypeOK

\* A task that exists still exists when its status changes, and no other
\* task comes into being.
LEMMA SetStatusExists ==
  ASSUME TypeOK, NEW t \in Tasks, NEW to \in Status, NEW W, setStatus(t, to, W),
         status[t] # "none", UNCHANGED blockedBy, BlockersExist
  PROVE  BlockersExist'
<1>1. Exists' = Exists
  BY DEF setStatus, TypeOK, Exists, Status
<1> QED BY <1>1 DEF BlockersExist

-----------------------------------------------------------------------------
(* The steps of the engine. *)

\* What a round decides of the task it looks at: nothing, or one change of a
\* blocked task or of a failed one whose blockers are done.
Undecided(t) ==
  /\ work' = work \ {t} /\ UNCHANGED <<status, expired, mark>>
  /\ ~Decidable(t)
  /\ ~(status[t] = "failed" /\ mark[t] = "fail" /\ blockedBy[t] # {} /\ satisfied(t))

Decided(t, to) ==
  /\ setStatus(t, to, work \ {t})
  /\ mark' \in {mark, [mark EXCEPT ![t] = "fail"], [mark EXCEPT ![t] = "recover"]}
  /\ status[t] = "blocked" \/ (status[t] = "failed" /\ satisfied(t))
  /\ to = "failed" => ~satisfied(t)

Decision(t) == Undecided(t) \/ \E to \in {"cancelled", "in_progress", "failed"} : Decided(t, to)

\* Every round makes such a decision.
LEMMA LookDecides == ASSUME NEW t \in Tasks, look(t) PROVE t \in work /\ Decision(t) /\ UNCHANGED blockedBy
<1>1. t \in work /\ UNCHANGED blockedBy
  BY DEF look
<1>2. CASE status[t] = "blocked" /\ blockedBy[t] # {}
  <2>1. evaluateBlockedDependent(t, work \ {t})
    BY <1>2 DEF look
  <2>2. CASE dead(t)
    <3>1. Decided(t, "cancelled")
      BY <1>2, <2>1, <2>2 DEF evaluateBlockedDependent, cancelDependent, Decided
    <3> QED BY <1>1, <3>1 DEF Decision
  <2>3. CASE ~dead(t) /\ satisfied(t)
    <3>1. Decided(t, "in_progress")
      BY <1>2, <2>1, <2>3 DEF evaluateBlockedDependent, Decided
    <3> QED BY <1>1, <3>1 DEF Decision
  <2>4. CASE ~dead(t) /\ ~satisfied(t) /\ failedTerminal(t)
    <3>1. Decided(t, "failed")
      BY <1>2, <2>1, <2>4 DEF evaluateBlockedDependent, autoFailBlockedDependent, Decided
    <3> QED BY <1>1, <3>1 DEF Decision
  <2>5. CASE ~dead(t) /\ ~satisfied(t) /\ ~failedTerminal(t)
    <3>1. Undecided(t)
      BY <1>2, <2>1, <2>5 DEF evaluateBlockedDependent, Undecided, Decidable
    <3> QED BY <1>1, <3>1 DEF Decision
  <2> QED BY <1>1, <2>2, <2>3, <2>4, <2>5
<1>3. CASE ~(status[t] = "blocked" /\ blockedBy[t] # {}) /\ status[t] = "failed"
  <2>1. recoverAutoFailedDependent(t, work \ {t})
    BY <1>3 DEF look
  <2>2. CASE mark[t] = "fail" /\ blockedBy[t] # {} /\ satisfied(t)
    <3>1. Decided(t, "in_progress")
      BY <1>3, <2>1, <2>2 DEF recoverAutoFailedDependent, Decided
    <3> QED BY <1>1, <3>1 DEF Decision
  <2>3. CASE ~(mark[t] = "fail" /\ blockedBy[t] # {} /\ satisfied(t))
    <3>1. Undecided(t)
      BY <1>3, <2>1, <2>3 DEF recoverAutoFailedDependent, Undecided, Decidable
    <3> QED BY <1>1, <3>1 DEF Decision
  <2> QED BY <1>1, <2>2, <2>3
<1>4. CASE ~(status[t] = "blocked" /\ blockedBy[t] # {}) /\ status[t] # "failed"
  <2>1. work' = work \ {t} /\ UNCHANGED <<status, expired, mark>>
    BY <1>4 DEF look
  <2> QED BY <1>1, <1>4, <2>1 DEF Decision, Undecided, Decidable
<1> QED BY <1>2, <1>3, <1>4

\* The engine completes and archives nothing: whoever waits for an unfinished
\* blocker goes on waiting for it.
LEMMA StillUnsatisfied ==
  ASSUME TypeOK, NEW t \in Tasks, NEW to \in {"cancelled", "in_progress", "failed"},
         Decided(t, to), UNCHANGED blockedBy, NEW u \in Tasks, ~satisfied(u)
  PROVE  ~satisfied(u)'
<1>1. PICK b \in blockedBy[u] : status[b] \notin {"completed", "archived"}
  BY DEF satisfied
<1>2. b \in Tasks
  BY <1>1 DEF TypeOK
<1>3. status'[b] = IF b = t THEN to ELSE status[b]
  BY <1>2 DEF Decided, setStatus, TypeOK
<1> QED BY <1>1, <1>3 DEF satisfied

\* A round leaves behind no task that can be decided or healed: it looks at
\* whom it changed, and no one else has become decidable.
LEMMA LookInv ==
  ASSUME Inv, NEW t \in Tasks, look(t), UNCHANGED calm, Remember
  PROVE  Inv'
<1>1. t \in work /\ Decision(t) /\ UNCHANGED blockedBy
  BY LookDecides
<1>2. CASE Undecided(t)
  <2>0. /\ work' = work \ {t} /\ UNCHANGED <<status, expired, mark>>
        /\ ~Decidable(t)
        /\ ~(status[t] = "failed" /\ mark[t] = "fail" /\ blockedBy[t] # {} /\ satisfied(t))
    BY <1>2 DEF Undecided
  <2>1. TypeOK'
    BY <1>1, <2>0, RememberTypes DEF Inv, TypeOK
  <2>2. \A u \in Tasks : Decidable(u)' <=> Decidable(u)
    BY <1>1, <2>0 DEF Decidable, dead, satisfied, failedTerminal
  <2>3. PassOK'
    BY <2>0, <2>2 DEF Inv, PassOK
  <2>4. ASSUME NEW u \in Tasks, Healable(u)' PROVE u \in work'
    <3>1. /\ status[u] = "failed" /\ mark[u] = "fail" /\ blockedBy[u] # {} /\ satisfied(u)
          /\ status'[u] = "failed" /\ u \notin own' \union edited'
      BY <1>1, <2>0, <2>4 DEF Healable, satisfied
    <3>2. Healable(u)
      BY <3>1, HistoriesKept DEF Healable
    <3> QED BY <2>0, <3>1, <3>2 DEF Inv, HealOK
  <2>5. BlockersExist'
    BY <1>1, <2>0 DEF Inv, BlockersExist, Exists
  <2>6. ChangedOK'
    BY <1>1, <2>0, StillChangedOK
  <2> QED BY <2>1, <2>3, <2>4, <2>5, <2>6 DEF Inv, HealOK
<1>3. ASSUME NEW to \in {"cancelled", "in_progress", "failed"},
             Decided(t, to)
      PROVE  Inv'
  <2>0. /\ setStatus(t, to, work \ {t})
        /\ mark' \in {mark, [mark EXCEPT ![t] = "fail"], [mark EXCEPT ![t] = "recover"]}
        /\ status[t] = "blocked" \/ (status[t] = "failed" /\ satisfied(t))
        /\ to = "failed" => ~satisfied(t)
    BY <1>3 DEF Decided
  <2>1. TypeOK /\ to \in Status /\ work \ {t} \in SUBSET Tasks
    BY DEF Inv, TypeOK, Status
  <2>2. mark' \in [Tasks -> {"none", "fail", "recover"}] /\ \A u \in Tasks \ {t} : mark'[u] = mark[u]
    BY <2>0, <2>1 DEF TypeOK
  <2>3. status'[t] = to /\ work \ {t} \subseteq work'
    BY <2>0, <2>1 DEF setStatus, TypeOK
  <2>4. TypeOK'
    BY <1>1, <2>0, <2>1, <2>2, SetStatusTypes, RememberTypes DEF TypeOK, Statuses
  <2>5. ASSUME NEW u \in Tasks, calm', Decidable(u)', u \notin work' PROVE FALSE
    <3>1. u # t
      BY <2>3, <2>5 DEF Decidable
    <3>2. Decidable(u)
      BY <1>1, <2>0, <2>1, <2>5, <3>1, OthersUndecided
    <3> QED BY <2>3, <2>5, <3>1, <3>2 DEF Inv, PassOK
  <2>6. ASSUME NEW u \in Tasks, Healable(u)', u \notin work' PROVE FALSE
    <3>0. /\ status'[u] = "failed" /\ mark'[u] = "fail" /\ u \notin own' \union edited'
          /\ blockedBy'[u] # {} /\ satisfied(u)'
      BY <2>6 DEF Healable
    <3>1. CASE u = t
      <4>1. to = "failed" /\ ~satisfied(t)
        BY <2>0, <2>3, <3>0, <3>1
      <4>2. ~satisfied(t)'
        BY <1>1, <1>3, <2>1, <4>1, StillUnsatisfied
      <4> QED BY <3>0, <3>1, <4>2
    <3>2. CASE u # t
      <4>1. status[u] = "failed" /\ satisfied(u) /\ mark[u] = "fail" /\ blockedBy[u] # {}
        BY <1>1, <2>0, <2>1, <2>2, <2>6, <3>0, <3>2, OthersUndecided
      <4>2. Healable(u)
        BY <3>0, <4>1, HistoriesKept DEF Healable
      <4> QED BY <2>3, <2>6, <3>2, <4>2 DEF Inv, HealOK
    <3> QED BY <3>1, <3>2
  <2>7. BlockersExist'
    <3>1. status[t] # "none"
      BY <2>0
    <3> QED BY <1>1, <2>0, <2>1, <3>1, SetStatusExists DEF Inv
  <2>8. ChangedOK'
    <3> SUFFICES ASSUME NEW u \in changed'
                 PROVE  status'[u] # "blocked" /\ (status'[u] = "failed" => ~satisfied(u)')
      BY DEF ChangedOK
    <3>1. u \in Tasks /\ (u = t \/ (u \in changed /\ status'[u] = status[u]))
      BY <2>0, <2>1 DEF Remember, setStatus, TypeOK
    <3>2. status'[u] # "blocked" /\ (status'[u] = "failed" => ~satisfied(u))
      BY <2>0, <2>3, <3>1 DEF Inv, ChangedOK
    <3> QED BY <1>1, <1>3, <2>1, <3>1, <3>2, StillUnsatisfied
  <2> QED BY <2>4, <2>5, <2>6, <2>7, <2>8 DEF Inv, PassOK, HealOK
<1> QED BY <1>1, <1>2, <1>3 DEF Decision

\* The periodic pass looks at every task it could decide, and a start at every
\* task it could heal as well.
LEMMA PassInv ==
  ASSUME Inv, Remember,
         \/ reevaluateBlockedDependents /\ calm' = TRUE
         \/ reconcileBlockedTaskStatuses /\ calm' = FALSE
  PROVE  Inv'
<1>1. UNCHANGED <<status, blockedBy, expired, mark>> /\ calm' \in BOOLEAN /\ work' \subseteq Tasks
  BY DEF reevaluateBlockedDependents, reconcileBlockedTaskStatuses
<1>2. TypeOK'
  BY <1>1, RememberTypes DEF Inv, TypeOK
<1>3. BlockersExist'
  BY <1>1 DEF Inv, BlockersExist, Exists
<1>4. ASSUME NEW u \in Tasks, status[u] = "blocked", blockedBy[u] # {} PROVE u \in work'
  BY <1>4 DEF reevaluateBlockedDependents, reconcileBlockedTaskStatuses
<1>5. PassOK'
  BY <1>1, <1>4 DEF PassOK, Decidable
<1>6. ASSUME NEW u \in Tasks, Healable(u)' PROVE u \in work'
  <2>1. /\ status[u] = "failed" /\ mark[u] = "fail" /\ blockedBy[u] # {} /\ satisfied(u)
        /\ status'[u] = "failed" /\ u \notin own' \union edited'
    BY <1>1, <1>6 DEF Healable, satisfied
  <2>2. Healable(u)
    BY <2>1, HistoriesKept DEF Healable
  <2>3. u \in work
    BY <2>2 DEF Inv, HealOK
  <2>4. reconcileBlockedTaskStatuses
    BY <2>3 DEF reevaluateBlockedDependents
  <2> QED BY <2>1, <2>4 DEF reconcileBlockedTaskStatuses
<1> QED BY <1>1, <1>2, <1>3, <1>5, <1>6, StillChangedOK DEF Inv, HealOK

-----------------------------------------------------------------------------
(* The requests. *)

\* A change of one status by a user or an agent: a failure is the task's own.
LEMMA ChangeInv ==
  ASSUME Inv, work = {}, calm' = FALSE, Remember, UNCHANGED <<blockedBy, mark>>,
         NEW t \in Tasks, status[t] # "none", NEW to \in Status, setStatus(t, to, {}),
         to = "failed" => status[t] # "failed"
  PROVE  Inv'
<1>1. TypeOK /\ status'[t] = to
  BY DEF Inv, TypeOK, setStatus
<1>2. TypeOK'
  BY <1>1, SetStatusTypes, RememberTypes DEF TypeOK, Statuses
<1>3. BlockersExist'
  BY <1>1, SetStatusExists DEF Inv
<1>4. ASSUME NEW u \in Tasks, Healable(u)', u \notin work' PROVE FALSE
  <2>0. /\ status'[u] = "failed" /\ mark'[u] = "fail" /\ u \notin own' \union edited'
        /\ blockedBy'[u] # {} /\ satisfied(u)'
    BY <1>4 DEF Healable
  <2>1. status[u] = "failed"
    BY <2>0, HistoriesKept
  <2>2. u # t
    BY <1>1, <2>0, <2>1
  <2>3. satisfied(u)
    BY <1>1, <1>4, <2>0, <2>2, OthersUndecided
  <2>4. Healable(u)
    BY <2>0, <2>1, <2>3, HistoriesKept DEF Healable
  <2> QED BY <2>4 DEF Inv, HealOK
<1> QED BY <1>2, <1>3, <1>4, StillChangedOK DEF Inv, PassOK, HealOK

\* An edit that moves a task between statuses that nobody waits for, or makes
\* a new one, heals nobody: an edited task is no longer the engine's to heal.
LEMMA EditInv ==
  ASSUME Inv, work = {}, calm' = FALSE, Remember, UNCHANGED <<mark, work>>,
         NEW t \in Tasks, NEW B \in SUBSET Exists, blockedBy' = [blockedBy EXCEPT ![t] = B],
         status' \in [Tasks -> Statuses],
         \A u \in Tasks \ {t} : status'[u] = status[u],
         status[t] \in Done <=> status'[t] \in Done,
         status[t] = "failed" <=> status'[t] = "failed",
         status'[t] # "none",
         expired' \subseteq expired \ {t}
  PROVE  Inv'
<1>1. TypeOK
  BY DEF Inv
<1>2. /\ blockedBy' \in [Tasks -> SUBSET Tasks] /\ blockedBy'[t] = B
      /\ \A u \in Tasks \ {t} : blockedBy'[u] = blockedBy[u]
  BY <1>1 DEF TypeOK, Exists
<1>3. TypeOK'
  BY <1>1, <1>2, RememberTypes DEF TypeOK, Statuses
<1>4. BlockersExist'
  <2>1. Exists' = Exists \union {t}
    BY <1>1 DEF Exists, TypeOK
  <2> QED BY <1>1, <1>2, <2>1 DEF Inv, BlockersExist
<1>5. ASSUME NEW u \in Tasks, Healable(u)' PROVE FALSE
  <2>0. /\ status'[u] = "failed" /\ mark'[u] = "fail" /\ u \notin own' \union edited'
        /\ blockedBy'[u] # {} /\ satisfied(u)'
    BY <1>5 DEF Healable
  <2>1. status[u] = "failed" /\ blockedBy'[u] = blockedBy[u]
    BY <2>0, HistoriesKept
  <2>2. \A b \in Tasks : status'[b] \in Done => status[b] \in Done
    OBVIOUS
  <2>3. satisfied(u)
    BY <1>1, <2>0, <2>1, <2>2 DEF satisfied, Done, TypeOK
  <2>4. Healable(u)
    BY <2>0, <2>1, <2>3, HistoriesKept DEF Healable
  <2> QED BY <2>4 DEF Inv, HealOK
<1> QED BY <1>3, <1>4, <1>5, StillChangedOK DEF Inv, PassOK, HealOK

\* Every request keeps the invariant.
LEMMA RequestsInv ==
  ASSUME Inv, Requests, calm' = FALSE, Remember
  PROVE  Inv'
<1>0. TypeOK
  BY DEF Inv
<1>1. PICK t \in Tasks :
        \/ cancelTask(t) \/ windowPasses(t)
        \/ \E approve \in BOOLEAN : decide(t, approve)
        \/ \E to \in Status : updateTaskStatus(t, to)
        \/ \E B \in BlockerSets : updateTask(t, B) \/ \E auto \in BOOLEAN : createTask(t, B, auto)
  BY DEF Requests
<1>2. CASE cancelTask(t)
  <2>1. "cancelled" \in Status /\ status[t] # "none"
    BY <1>2 DEF cancelTask, Status
  <2> QED BY <1>2, <2>1, ChangeInv DEF cancelTask
<1>3. CASE windowPasses(t)
  <2>1. UNCHANGED <<status, blockedBy, mark, work>> /\ status[t] = "failed"
        /\ expired' = expired \union {t} /\ work = {}
    BY <1>3 DEF windowPasses
  <2>2. TypeOK'
    BY <1>0, <2>1, RememberTypes DEF TypeOK
  <2>3. BlockersExist'
    BY <2>1 DEF Inv, BlockersExist, Exists
  <2>4. ASSUME NEW u \in Tasks, Healable(u)' PROVE FALSE
    <3>1. /\ status[u] = "failed" /\ mark[u] = "fail" /\ blockedBy[u] # {} /\ satisfied(u)
          /\ status'[u] = "failed" /\ u \notin own' \union edited'
      BY <2>1, <2>4 DEF Healable, satisfied
    <3>2. Healable(u)
      BY <3>1, HistoriesKept DEF Healable
    <3> QED BY <2>1, <3>2 DEF Inv, HealOK
  <2> QED BY <2>1, <2>2, <2>3, <2>4, StillChangedOK DEF Inv, PassOK, HealOK
<1>4. ASSUME NEW approve \in BOOLEAN, decide(t, approve) PROVE Inv'
  <2>1. PICK to \in {"rejected", "in_progress", "blocked"} : setStatus(t, to, {})
    BY <1>4 DEF decide
  <2>2. work = {} /\ status[t] # "none" /\ UNCHANGED <<blockedBy, mark>> /\ to \in Status /\ to # "failed"
    BY <1>4 DEF decide, Status
  <2> QED BY <2>1, <2>2, ChangeInv
<1>5. ASSUME NEW to \in Status, updateTaskStatus(t, to) PROVE Inv'
  <2>1. /\ work = {} /\ status[t] # "none" /\ UNCHANGED <<blockedBy, mark>>
        /\ setStatus(t, to, {}) /\ to \in transitions[status[t]]
    BY <1>5 DEF updateTaskStatus
  <2>2. to = "failed" => status[t] # "failed"
    BY <2>1, Transitions
  <2> QED BY <2>1, <2>2, ChangeInv
<1>6. ASSUME NEW B \in BlockerSets, updateTask(t, B) PROVE Inv'
  <2>1. /\ work = {} /\ t \in Exists /\ UNCHANGED <<mark, work>> /\ expired' = expired \ {t}
        /\ blockedBy' = [blockedBy EXCEPT ![t] = B] /\ B \in SUBSET Exists
    BY <1>6 DEF updateTask, BlockerSets
  <2>2. PICK open \in BOOLEAN :
          status' = [status EXCEPT ![t] = IF @ = "blocked" /\ ~open THEN "in_progress"
                                          ELSE IF @ = "in_progress" /\ open THEN "blocked"
                                          ELSE @]
    BY <1>6 DEF updateTask
  <2>3. /\ status' \in [Tasks -> Statuses] /\ \A u \in Tasks \ {t} : status'[u] = status[u]
        /\ status'[t] = status[t] \/ {status[t], status'[t]} = {"blocked", "in_progress"}
    BY <1>0, <2>2 DEF TypeOK, Statuses, Status
  <2>4. status[t] # "none"
    BY <2>1 DEF Exists
  <2>5. /\ status[t] \in Done <=> status'[t] \in Done
        /\ status[t] = "failed" <=> status'[t] = "failed"
        /\ status'[t] # "none"
    BY <2>3, <2>4 DEF Done
  <2> QED BY <2>1, <2>3, <2>5, EditInv
<1>7. ASSUME NEW B \in BlockerSets, NEW auto \in BOOLEAN, createTask(t, B, auto) PROVE Inv'
  <2>1. /\ work = {} /\ status[t] = "none" /\ UNCHANGED <<mark, work, expired>>
        /\ blockedBy' = [blockedBy EXCEPT ![t] = B] /\ B \in SUBSET Exists
    BY <1>7 DEF createTask, BlockerSets
  <2>2. PICK to \in {"pending", "in_progress", "blocked"} : status' = [status EXCEPT ![t] = to]
    BY <1>7 DEF createTask
  <2>3. /\ status' \in [Tasks -> Statuses] /\ \A u \in Tasks \ {t} : status'[u] = status[u]
        /\ status'[t] = to
    BY <1>0, <2>2 DEF TypeOK, Statuses, Status
  <2>4. /\ status[t] \in Done <=> status'[t] \in Done
        /\ status[t] = "failed" <=> status'[t] = "failed"
        /\ status'[t] # "none"
    BY <2>1, <2>3 DEF Done
  <2>5. expired' \subseteq expired \ {t}
    BY <1>0, <2>1 DEF TypeOK
  <2> QED BY <2>1, <2>3, <2>4, <2>5, EditInv
<1> QED BY <1>1, <1>2, <1>3, <1>4, <1>5, <1>6, <1>7

\* Every step keeps the invariant.
LEMMA InvInductive == Inv /\ [Next]_vars => Inv'
<1> SUFFICES ASSUME Inv, [Next]_vars PROVE Inv'
  OBVIOUS
<1>1. CASE UNCHANGED vars
  <2>1. UNCHANGED <<status, blockedBy, expired, mark, work, calm, own, edited, changed>>
    BY <1>1 DEF vars
  <2>2. TypeOK' /\ BlockersExist' /\ ChangedOK'
    BY <2>1 DEF Inv, TypeOK, BlockersExist, Exists, ChangedOK, satisfied
  <2>3. PassOK'
    BY <2>1 DEF Inv, PassOK, Decidable, dead, satisfied, failedTerminal
  <2>4. HealOK'
    BY <2>1 DEF Inv, HealOK, Healable, satisfied
  <2> QED BY <2>2, <2>3, <2>4 DEF Inv
<1>2. CASE (\E t \in Tasks : look(t)) /\ UNCHANGED calm /\ Remember
  BY <1>2, LookInv
<1>3. CASE reevaluateBlockedDependents /\ calm' = TRUE /\ Remember
  BY <1>3, PassInv
<1>4. CASE reconcileBlockedTaskStatuses /\ calm' = FALSE /\ Remember
  BY <1>4, PassInv
<1>5. CASE Requests /\ calm' = FALSE /\ Remember
  BY <1>5, RequestsInv
<1> QED BY <1>1, <1>2, <1>3, <1>4, <1>5 DEF Next

\* Every reachable state of the engine satisfies the invariant.
THEOREM EngineInvariant == Spec => []Inv
BY InitInv, InvInductive, PTL DEF Spec

\* Every variable keeps a value of its kind.
THEOREM EngineTypes == Spec => []TypeOK
<1>1. Inv => TypeOK
  BY DEF Inv
<1> QED BY <1>1, EngineInvariant, PTL

\* One periodic pass leaves nothing for a second one, however many tasks
\* depend on each other and whatever it changes on its way.
THEOREM PassIsIdempotent == Spec => []Reevaluated
<1>1. Inv => Reevaluated
  BY DEF Inv, PassOK, Reevaluated
<1> QED BY <1>1, EngineInvariant, PTL

\* A dependent that the engine failed is not left behind once its blockers are
\* done, unless it was edited.
THEOREM FailedDependentsHeal == Spec => []Healed
<1>1. Inv => Healed
  BY DEF Inv, HealOK, Healable, Healed
<1> QED BY <1>1, EngineInvariant, PTL

\* What a step of a propagation may change.
MayChange ==
  work # {} => \A t \in Tasks :
    status'[t] # status[t] => status[t] \in {"blocked", "failed"} /\ t \notin changed

\* A propagation changes only tasks that are blocked or failed when their turn
\* comes, and each of them once, however the tasks depend on each other.
THEOREM EngineChangesOnce == Spec => ChangedOnce
<1>1. Inv /\ [Next]_vars => MayChange
  <2> SUFFICES ASSUME Inv, [Next]_vars, work # {}, NEW u \in Tasks, status'[u] # status[u]
               PROVE  status[u] \in {"blocked", "failed"} /\ u \notin changed
    BY DEF MayChange
  <2>1. ~Requests /\ ~reevaluateBlockedDependents
    BY DEF Requests, cancelTask, windowPasses, decide, updateTaskStatus, updateTask, createTask,
           reevaluateBlockedDependents
  <2>2. ~reconcileBlockedTaskStatuses /\ ~UNCHANGED vars
    BY DEF reconcileBlockedTaskStatuses, vars
  <2>3. PICK t \in Tasks : look(t)
    BY <2>1, <2>2 DEF Next
  <2>4. Decision(t)
    BY <2>3, LookDecides
  <2>5. PICK to : setStatus(t, to, work \ {t})
                  /\ (status[t] = "blocked" \/ (status[t] = "failed" /\ satisfied(t)))
    <3>1. ~Undecided(t)
      BY DEF Undecided
    <3> QED BY <2>4, <3>1 DEF Decision, Decided
  <2>6. u = t
    BY <2>5 DEF setStatus, Inv, TypeOK
  <2> QED BY <2>5, <2>6 DEF Inv, ChangedOK
<1>2. ChangedOnce <=> [][MayChange]_vars
  BY DEF ChangedOnce, MayChange
<1> QED BY <1>1, <1>2, EngineInvariant, PTL DEF Spec

-----------------------------------------------------------------------------
(***************************************************************************)
(* The search of detectBlockedByCycle.  Reach is defined by a recursion;   *)
(* what it computes is the least set that contains where it starts and     *)
(* whatever its members wait for.                                          *)
(***************************************************************************)
N == Cardinality(Tasks)
BlockersOf(S) == UNION {blockedBy[b] : b \in S}
ClosedSet(C) == BlockersOf(C) \subseteq C

\* A set of numbers that holds 0 and every successor holds them all.
LEMMA NatSetInduction ==
  ASSUME NEW S, 0 \in S, \A n \in Nat : n \in S => n + 1 \in S
  PROVE  Nat \subseteq S
<1> SUFFICES ASSUME Nat \ S # {} PROVE FALSE
  OBVIOUS
<1> DEFINE T == Nat \ S
<1>1. PICK m \in T : \A k \in T : <<k, m>> \notin OpToRel(<, Nat)
  <2>1. T \subseteq Nat /\ T # {}
    OBVIOUS
  <2> HIDE DEF T
  <2> QED BY <2>1, WFMin, NatLessThanWellFounded, Zenon
<1>2. \A k \in T : ~(k < m)
  BY <1>1, Zenon DEF OpToRel
<1>3. m \in Nat /\ m # 0 /\ m \notin S
  OBVIOUS
<1>4. m - 1 \in Nat /\ m - 1 < m /\ (m - 1) + 1 = m
  BY <1>3
<1>5. m - 1 \in T
  BY <1>3, <1>4
<1> QED BY <1>2, <1>4, <1>5

\* The walks of n steps that start in B; a step may also stay.
Walks(B, n) ==
  {p \in [0..n -> Tasks] :
     /\ p[0] \in B
     /\ \A i \in 0..(n - 1) : p[i + 1] = p[i] \/ p[i + 1] \in blockedBy[p[i]]}
Stage(B, n) == {p[n] : p \in Walks(B, n)}

\* Where walks of one more step lead is where they led, and the blockers of it:
\* the recursion of Reach has a solution.
LEMMA StageSteps ==
  ASSUME TypeOK, NEW B \in SUBSET Tasks
  PROVE  /\ Stage(B, 0) = B
         /\ \A n \in Nat : Stage(B, n + 1) = Stage(B, n) \union BlockersOf(Stage(B, n))
<1>1. ASSUME NEW x PROVE x \in Stage(B, 0) <=> x \in B
  <2>1. ASSUME x \in B PROVE x \in Stage(B, 0)
    <3> DEFINE p == [i \in 0..0 |-> x]
    <3>1. p \in Walks(B, 0) /\ p[0] = x
      BY <2>1 DEF Walks
    <3> QED BY <3>1 DEF Stage
  <2>2. ASSUME x \in Stage(B, 0) PROVE x \in B
    BY <2>2 DEF Stage, Walks
  <2> QED BY <2>1, <2>2
<1>2. ASSUME NEW n \in Nat, NEW x
      PROVE  x \in Stage(B, n + 1) <=> x \in Stage(B, n) \/ x \in BlockersOf(Stage(B, n))
  <2>1. ASSUME x \in Stage(B, n + 1) PROVE x \in Stage(B, n) \/ x \in BlockersOf(Stage(B, n))
    <3>1. PICK p \in Walks(B, n + 1) : p[n + 1] = x
      BY <2>1 DEF Stage
    <3> DEFINE q == [i \in 0..n |-> p[i]]
    <3>2. /\ p \in [0..(n + 1) -> Tasks] /\ p[0] \in B
          /\ \A i \in 0..n : p[i + 1] = p[i] \/ p[i + 1] \in blockedBy[p[i]]
      BY <3>1 DEF Walks
    <3>3. q \in [0..n -> Tasks] /\ q[0] \in B /\ q[n] = p[n]
      BY <3>2
    <3>4. \A i \in 0..(n - 1) : q[i + 1] = q[i] \/ q[i + 1] \in blockedBy[q[i]]
      BY <3>2
    <3>5. p[n] \in Stage(B, n)
      BY <3>3, <3>4 DEF Stage, Walks
    <3>6. x = p[n] \/ x \in blockedBy[p[n]]
      BY <3>1, <3>2
    <3> QED BY <3>5, <3>6 DEF BlockersOf
  <2>2. ASSUME NEW q \in Walks(B, n), x \in Tasks, x = q[n] \/ x \in blockedBy[q[n]]
        PROVE  x \in Stage(B, n + 1)
    <3> DEFINE p == [i \in 0..(n + 1) |-> IF i = n + 1 THEN x ELSE q[i]]
    <3>1. /\ q \in [0..n -> Tasks] /\ q[0] \in B
          /\ \A i \in 0..(n - 1) : q[i + 1] = q[i] \/ q[i + 1] \in blockedBy[q[i]]
      BY DEF Walks
    <3>2. p \in [0..(n + 1) -> Tasks] /\ p[0] = q[0] /\ p[n + 1] = x /\ p[n] = q[n]
      BY <2>2, <3>1
    <3>3. ASSUME NEW i \in 0..n PROVE p[i + 1] = p[i] \/ p[i + 1] \in blockedBy[p[i]]
      <4>1. CASE i = n
        BY <2>2, <3>2, <4>1
      <4>2. CASE i \in 0..(n - 1)
        <5>1. p[i] = q[i] /\ p[i + 1] = q[i + 1]
          BY <4>2
        <5> QED BY <3>1, <4>2, <5>1
      <4> QED BY <4>1, <4>2
    <3> HIDE DEF p
    <3>4. p \in [0..(n + 1) -> Tasks] /\ p[0] \in B /\ (n + 1) - 1 = n
      BY <3>1, <3>2
    <3>5. p \in Walks(B, n + 1)
      BY <3>3, <3>4 DEF Walks
    <3> QED BY <3>2, <3>5 DEF Stage
  <2>3. ASSUME x \in Stage(B, n) PROVE x \in Stage(B, n + 1)
    <3>1. PICK q \in Walks(B, n) : q[n] = x
      BY <2>3 DEF Stage
    <3>2. x \in Tasks
      BY <3>1 DEF Walks
    <3> QED BY <2>2, <3>1, <3>2
  <2>4. ASSUME x \in BlockersOf(Stage(B, n)) PROVE x \in Stage(B, n + 1)
    <3>1. PICK q \in Walks(B, n) : x \in blockedBy[q[n]]
      BY <2>4 DEF Stage, BlockersOf
    <3>2. q[n] \in Tasks
      BY <3>1 DEF Walks
    <3>3. x \in Tasks
      BY <3>1, <3>2 DEF TypeOK
    <3> QED BY <2>2, <3>1, <3>3
  <2> QED BY <2>1, <2>3, <2>4
<1>3. Stage(B, 0) = B
  BY <1>1
<1>4. \A n \in Nat : Stage(B, n + 1) = Stage(B, n) \union BlockersOf(Stage(B, n))
  BY <1>2
<1> QED BY <1>3, <1>4

\* The rounds of the search, which the recursion describes.
Rounds(B) ==
  {R \in [0..N -> SUBSET Tasks] :
     /\ R[0] = B
     /\ \A n \in 0..(N - 1) : R[n + 1] = R[n] \union BlockersOf(R[n])}

\* The number of tasks is a natural number.
LEMMA TasksCounted == N \in Nat
BY FS_CardinalityType, DependencyAssumption DEF N

\* Reach is the last round.
LEMMA ReachIsLast ==
  ASSUME TypeOK, NEW B \in SUBSET Tasks
  PROVE  \E R \in Rounds(B) : Reach(B) = R[N]
<1> DEFINE Eq(R) == R = [n \in 0..N |-> IF n = 0 THEN B ELSE R[n - 1] \union UNION {blockedBy[b] : b \in R[n - 1]}]
           F == CHOOSE R : Eq(R)
           G == [n \in 0..N |-> Stage(B, n)]
<1>1. Reach(B) = F[N]
  BY DEF Reach, N
<1>2. Eq(G)
  <2>1. ASSUME NEW n \in 0..N
        PROVE  G[n] = IF n = 0 THEN B ELSE G[n - 1] \union UNION {blockedBy[b] : b \in G[n - 1]}
    <3>1. CASE n = 0
      BY <2>1, <3>1, StageSteps
    <3>2. CASE n # 0
      <4>1. n - 1 \in Nat /\ n - 1 \in 0..N /\ (n - 1) + 1 = n
        BY <2>1, <3>2, TasksCounted
      <4>2. Stage(B, n) = Stage(B, n - 1) \union BlockersOf(Stage(B, n - 1))
        BY <4>1, StageSteps
      <4>3. G[n] = Stage(B, n) /\ G[n - 1] = Stage(B, n - 1)
        BY <2>1, <4>1
      <4> QED BY <3>2, <4>2, <4>3 DEF BlockersOf
    <3> QED BY <3>1, <3>2
  <2> QED BY <2>1
<1>3. Eq(F)
  <2> HIDE DEF Eq
  <2> QED BY <1>2
<1>4. F = [n \in 0..N |-> IF n = 0 THEN B ELSE F[n - 1] \union UNION {blockedBy[b] : b \in F[n - 1]}]
  BY <1>3
<1> HIDE DEF Eq, F, G
<1>5. \A n \in 0..N : F[n] = IF n = 0 THEN B ELSE F[n - 1] \union BlockersOf(F[n - 1])
  BY <1>4 DEF BlockersOf
<1>6. /\ F[0] = B
      /\ \A n \in 0..(N - 1) : F[n + 1] = F[n] \union BlockersOf(F[n])
  <2>1. 0 \in 0..N
    BY TasksCounted
  <2>2. ASSUME NEW n \in 0..(N - 1) PROVE F[n + 1] = F[n] \union BlockersOf(F[n])
    <3>1. n + 1 \in 0..N /\ n + 1 # 0 /\ (n + 1) - 1 = n
      BY TasksCounted
    <3> QED BY <1>5, <3>1
  <2> QED BY <1>5, <2>1, <2>2
<1>7. \A n \in 0..N : F[n] \subseteq Tasks
  <2> DEFINE S == {n \in Nat : n <= N => F[n] \subseteq Tasks}
  <2>1. 0 \in S
    BY <1>6
  <2>2. ASSUME NEW n \in Nat, n \in S PROVE n + 1 \in S
    <3>1. CASE n + 1 <= N
      <4>1. n \in 0..(N - 1) /\ F[n] \subseteq Tasks
        BY <2>2, <3>1, TasksCounted
      <4>2. F[n + 1] = F[n] \union BlockersOf(F[n])
        BY <1>6, <4>1
      <4>3. BlockersOf(F[n]) \subseteq Tasks
        BY <4>1 DEF BlockersOf, TypeOK
      <4> QED BY <4>1, <4>2, <4>3
    <3>2. CASE ~(n + 1 <= N)
      BY <3>2
    <3> QED BY <3>1, <3>2
  <2> HIDE DEF S
  <2>3. Nat \subseteq S
    BY <2>1, <2>2, NatSetInduction
  <2> QED BY <2>3, TasksCounted DEF S
<1>8. F \in [0..N -> SUBSET Tasks]
  <2>1. F = [n \in 0..N |-> F[n]]
    BY <1>4
  <2> QED BY <1>7, <2>1
<1> QED BY <1>1, <1>6, <1>8 DEF Rounds

\* What a task waits for, directly or not: the least closed set around it.
LEMMA ReachIsClosure ==
  ASSUME TypeOK, NEW B \in SUBSET Tasks
  PROVE  /\ Reach(B) \subseteq Tasks
         /\ B \subseteq Reach(B)
         /\ ClosedSet(Reach(B))
         /\ \A C : B \subseteq C /\ ClosedSet(C) => Reach(B) \subseteq C
<1>1. PICK R \in Rounds(B) : Reach(B) = R[N]
  BY ReachIsLast
<1>2. /\ R \in [0..N -> SUBSET Tasks] /\ R[0] = B
      /\ \A n \in 0..(N - 1) : R[n + 1] = R[n] \union BlockersOf(R[n])
  BY DEF Rounds
<1>3. N \in Nat /\ N \in 0..N
  BY TasksCounted
<1>4. \A n \in Nat : n <= N => B \subseteq R[n]
  <2> DEFINE S == {n \in Nat : n <= N => B \subseteq R[n]}
  <2>1. 0 \in S
    BY <1>2
  <2>2. ASSUME NEW n \in Nat, n \in S PROVE n + 1 \in S
    <3>1. n + 1 <= N => n \in 0..(N - 1) /\ n <= N
      BY <1>3
    <3>2. n + 1 <= N => R[n] \subseteq R[n + 1]
      BY <1>2, <3>1
    <3> QED BY <2>2, <3>1, <3>2
  <2> HIDE DEF S
  <2>3. Nat \subseteq S
    BY <2>1, <2>2, NatSetInduction
  <2> QED BY <2>3 DEF S
<1>5. ASSUME NEW C, B \subseteq C, ClosedSet(C) PROVE Reach(B) \subseteq C
  <2> DEFINE S == {n \in Nat : n <= N => R[n] \subseteq C}
  <2>1. 0 \in S
    BY <1>2, <1>5
  <2>2. ASSUME NEW n \in Nat, n \in S PROVE n + 1 \in S
    <3>1. n + 1 <= N => n \in 0..(N - 1) /\ n <= N
      BY <1>3
    <3>2. n + 1 <= N => R[n + 1] = R[n] \union BlockersOf(R[n])
      BY <1>2, <3>1
    <3>3. R[n] \subseteq C => BlockersOf(R[n]) \subseteq C
      BY <1>5 DEF BlockersOf, ClosedSet
    <3> QED BY <2>2, <3>1, <3>2, <3>3
  <2> HIDE DEF S
  <2>3. Nat \subseteq S
    BY <2>1, <2>2, NatSetInduction
  <2> QED BY <1>1, <1>3, <2>3 DEF S
<1>6. ClosedSet(Reach(B))
  <2> SUFFICES ASSUME ~ClosedSet(R[N]) PROVE FALSE
    BY <1>1
  (* A round that adds nothing is the last; one that adds something has one task more. *)
  <2>1. \A n \in Nat : n <= N => ~ClosedSet(R[N - n])
    <3> DEFINE S == {n \in Nat : n <= N => ~ClosedSet(R[N - n])}
    <3>1. 0 \in S
      BY <1>3
    <3>2. ASSUME NEW n \in Nat, n \in S PROVE n + 1 \in S
      <4> SUFFICES ASSUME n + 1 <= N, ClosedSet(R[N - (n + 1)]) PROVE FALSE
        OBVIOUS
      <4>1. N - (n + 1) \in 0..(N - 1) /\ (N - (n + 1)) + 1 = N - n
        BY <1>3
      <4>2. R[N - n] = R[N - (n + 1)] \union BlockersOf(R[N - (n + 1)])
        BY <1>2, <4>1
      <4>3. R[N - n] = R[N - (n + 1)]
        BY <4>2 DEF ClosedSet
      <4> QED BY <1>3, <3>2, <4>3
    <3> HIDE DEF S
    <3>3. Nat \subseteq S
      BY <3>1, <3>2, NatSetInduction
    <3> QED BY <3>3 DEF S
  <2>2. \A n \in 0..N : ~ClosedSet(R[n])
    <3>1. ASSUME NEW n \in 0..N PROVE N - n \in Nat /\ N - n <= N /\ N - (N - n) = n
      BY <1>3
    <3> QED BY <2>1, <3>1
  <2>3. \A n \in 0..N : IsFiniteSet(R[n]) /\ Cardinality(R[n]) \in Nat /\ Cardinality(R[n]) <= N
    BY <1>2, DependencyAssumption, FS_Subset, FS_CardinalityType DEF N
  <2>4. \A n \in Nat : n <= N => Cardinality(R[n]) > n
    <3> DEFINE S == {n \in Nat : n <= N => Cardinality(R[n]) > n}
    <3>1. 0 \in S
      <4>1. R[0] # {}
        <5>1. 0 \in 0..N
          BY <1>3
        <5>2. ClosedSet({})
          BY DEF ClosedSet, BlockersOf
        <5> QED BY <2>2, <5>1, <5>2
      <4>2. 0 \in 0..N
        BY <1>3
      <4> QED BY <2>3, <4>1, <4>2, FS_EmptySet
    <3>2. ASSUME NEW n \in Nat, n \in S PROVE n + 1 \in S
      <4> SUFFICES ASSUME n + 1 <= N PROVE Cardinality(R[n + 1]) > n + 1
        OBVIOUS
      <4>1. n \in 0..(N - 1) /\ n \in 0..N /\ n + 1 \in 0..N /\ n <= N
        BY <1>3
      <4>2. Cardinality(R[n]) > n
        BY <3>2, <4>1
      <4>3. R[n + 1] = R[n] \union BlockersOf(R[n])
        BY <1>2, <4>1
      <4>4. PICK x \in BlockersOf(R[n]) : x \notin R[n]
        BY <2>2, <4>1 DEF ClosedSet
      <4>5. R[n] \union {x} \subseteq R[n + 1]
        BY <4>3
      <4>6. Cardinality(R[n] \union {x}) = Cardinality(R[n]) + 1
        BY <2>3, <4>1, <4>4, FS_AddElement
      <4>7. Cardinality(R[n] \union {x}) <= Cardinality(R[n + 1])
        BY <2>3, <4>1, <4>5, FS_Subset
      <4>8. Cardinality(R[n]) \in Nat /\ Cardinality(R[n + 1]) \in Nat
        BY <2>3, <4>1
      <4> QED BY <4>2, <4>6, <4>7, <4>8
    <3> HIDE DEF S
    <3>3. Nat \subseteq S
      BY <3>1, <3>2, NatSetInduction
    <3> QED BY <3>3 DEF S
  <2> QED BY <1>3, <2>3, <2>4
<1> QED BY <1>1, <1>2, <1>3, <1>4, <1>5, <1>6

\* The same, as a fact of a state.
ReachIsLeast ==
  \A S \in SUBSET Tasks : \A C : S \subseteq C /\ ClosedSet(C) => Reach(S) \subseteq C

\* It holds in every state of the right types.
LEMMA ReachIsLeastHolds == TypeOK => ReachIsLeast
BY ReachIsClosure DEF ReachIsLeast

\* An edit that gives t blockers whose search does not come back to t closes
\* no cycle.
LEMMA EditKeepsAcyclic ==
  ASSUME TypeOK, TypeOK', Acyclic, NEW t \in Tasks, NEW B \in SUBSET Tasks, t \notin Reach(B),
         blockedBy' = [blockedBy EXCEPT ![t] = B]
  PROVE  Acyclic'
<1> DEFINE C == Reach(B)
<1>1. C \subseteq Tasks /\ B \subseteq C /\ ClosedSet(C) /\ t \notin C
  BY ReachIsClosure
<1>2. blockedBy'[t] = B /\ \A u \in Tasks \ {t} : blockedBy'[u] = blockedBy[u]
  BY DEF TypeOK
<1>3. ReachIsLeast'
  BY ReachIsLeastHolds, PTL
<1>4. ASSUME NEW E \in SUBSET Tasks, \A b \in E : blockedBy[b] \subseteq E, t \in E => B \subseteq E,
             NEW u \in Tasks, u \notin E, blockedBy'[u] \subseteq E
      PROVE  (u \notin Reach(blockedBy[u]))'
  <2>1. \A b \in E : blockedBy'[b] \subseteq E
    BY <1>2, <1>4
  <2>2. ClosedSet(E)'
    BY <2>1 DEF ClosedSet, BlockersOf
  <2>3. blockedBy'[u] \in SUBSET Tasks
    BY DEF TypeOK
  <2>4. Reach(blockedBy[u])' \subseteq E
    BY <1>3, <1>4, <2>2, <2>3 DEF ReachIsLeast
  <2> QED BY <1>4, <2>4
<1>5. ASSUME NEW u \in Tasks PROVE (u \notin Reach(blockedBy[u]))'
  <2> DEFINE D == Reach(blockedBy[u])
  <2>1. blockedBy[u] \in SUBSET Tasks
    BY DEF TypeOK
  <2>2. /\ D \subseteq Tasks /\ blockedBy[u] \subseteq D /\ ClosedSet(D) /\ u \notin D
        /\ blockedBy[u] \subseteq C => D \subseteq C
    BY <1>1, <2>1, ReachIsClosure DEF Acyclic
  <2>3. \A b \in C : blockedBy[b] \subseteq C
    BY <1>1 DEF ClosedSet, BlockersOf
  <2>4. \A b \in D : blockedBy[b] \subseteq D
    BY <2>2 DEF ClosedSet, BlockersOf
  <2> HIDE DEF C, D
  <2>5. CASE u = t
    BY <1>1, <1>2, <1>4, <2>3, <2>5
  <2>6. CASE u # t /\ u \in C
    <3>1. D \subseteq C /\ t \notin D
      BY <1>1, <2>2, <2>3, <2>6
    <3> QED BY <1>2, <1>4, <2>2, <2>4, <2>6, <3>1
  <2>7. CASE u # t /\ u \notin C
    <3> DEFINE E == C \union D
    <3>1. /\ E \in SUBSET Tasks /\ \A b \in E : blockedBy[b] \subseteq E
          /\ B \subseteq E /\ u \notin E /\ blockedBy'[u] \subseteq E
      BY <1>1, <1>2, <2>2, <2>3, <2>4, <2>7
    <3> HIDE DEF E
    <3> QED BY <1>4, <3>1
  <2> QED BY <2>5, <2>6, <2>7
<1> QED BY <1>5 DEF Acyclic

\* A new task is waited for by nobody, so its blockers do not wait for it.
LEMMA NewIsNotReached ==
  ASSUME TypeOK, BlockersExist, NEW B \in SUBSET Exists, NEW t \in Tasks, status[t] = "none"
  PROVE  t \notin Reach(B)
<1>1. B \in SUBSET Tasks /\ t \notin Exists
  BY DEF Exists
<1>2. ClosedSet(Exists)
  BY DEF ClosedSet, BlockersOf, BlockersExist
<1> QED BY <1>1, <1>2, ReachIsClosure

\* A step that edits no blockers changes no search.
LEMMA SameReach ==
  ASSUME TypeOK, TypeOK', UNCHANGED blockedBy, Acyclic
  PROVE  Acyclic'
<1>1. ReachIsLeast'
  BY ReachIsLeastHolds, PTL
<1>2. ASSUME NEW u \in Tasks PROVE (u \notin Reach(blockedBy[u]))'
  <2> DEFINE D == Reach(blockedBy[u])
  <2>1. blockedBy[u] \in SUBSET Tasks
    BY DEF TypeOK
  <2>2. blockedBy[u] \subseteq D /\ ClosedSet(D) /\ u \notin D
    BY <2>1, ReachIsClosure DEF Acyclic
  <2>3. \A b \in D : blockedBy[b] \subseteq D
    BY <2>2 DEF ClosedSet, BlockersOf
  <2> HIDE DEF D
  <2>4. \A E : E = D => ClosedSet(E)' /\ blockedBy'[u] \subseteq E
    BY <2>2, <2>3 DEF ClosedSet, BlockersOf
  <2>5. \A E : E = D => Reach(blockedBy[u])' \subseteq E
    BY <1>1, <2>1, <2>4 DEF ReachIsLeast
  <2> QED BY <2>2, <2>5
<1> QED BY <1>2 DEF Acyclic

\* Every step keeps the tasks free of cycles.
LEMMA AcyclicInductive == Inv /\ Inv' /\ Acyclic /\ [Next]_vars => Acyclic'
<1> SUFFICES ASSUME Inv, Inv', Acyclic, [Next]_vars PROVE Acyclic'
  OBVIOUS
<1>1. TypeOK /\ TypeOK' /\ BlockersExist /\ Exists \subseteq Tasks
  BY DEF Inv, Exists
<1>2. CASE UNCHANGED blockedBy
  BY <1>1, <1>2, SameReach
<1>3. ASSUME NEW t \in Tasks, NEW B \in BlockerSets, updateTask(t, B) PROVE Acyclic'
  <2>1. B \in SUBSET Tasks /\ t \notin Reach(B) /\ blockedBy' = [blockedBy EXCEPT ![t] = B]
    BY <1>1, <1>3 DEF updateTask, detectBlockedByCycle, BlockerSets
  <2> QED BY <1>1, <2>1, EditKeepsAcyclic
<1>4. ASSUME NEW t \in Tasks, NEW B \in BlockerSets, NEW auto \in BOOLEAN, createTask(t, B, auto)
      PROVE  Acyclic'
  <2>1. /\ B \in SUBSET Exists /\ B \in SUBSET Tasks /\ status[t] = "none"
        /\ blockedBy' = [blockedBy EXCEPT ![t] = B]
    BY <1>1, <1>4 DEF createTask, BlockerSets
  <2>2. t \notin Reach(B)
    BY <1>1, <2>1, NewIsNotReached
  <2> QED BY <1>1, <2>1, <2>2, EditKeepsAcyclic
<1>5. CASE \E t \in Tasks : look(t)
  BY <1>2, <1>5 DEF look
<1>6. CASE reevaluateBlockedDependents \/ reconcileBlockedTaskStatuses \/ UNCHANGED vars
  BY <1>2, <1>6 DEF reevaluateBlockedDependents, reconcileBlockedTaskStatuses, vars
<1>7. CASE Requests
  BY <1>2, <1>3, <1>4, <1>7 DEF Requests, cancelTask, windowPasses, decide, updateTaskStatus
<1> QED BY <1>5, <1>6, <1>7 DEF Next

\* Whatever edits are made, and however many, no tasks wait for each other:
\* the search of detectBlockedByCycle suffices.
THEOREM TasksAreAcyclic == Spec => []Acyclic
<1>1. Init => Acyclic
  <2> SUFFICES ASSUME Init, NEW t \in Tasks PROVE t \notin Reach(blockedBy[t])
    BY DEF Acyclic
  <2>1. TypeOK /\ blockedBy[t] = {} /\ {} \in SUBSET Tasks
    BY InitInv DEF Inv, Init
  <2>2. ClosedSet({})
    BY DEF ClosedSet, BlockersOf
  <2>3. Reach({}) \subseteq {}
    BY <2>1, <2>2, ReachIsClosure
  <2> QED BY <2>1, <2>3
<1> QED BY <1>1, AcyclicInductive, EngineInvariant, PTL DEF Spec
=============================================================================
