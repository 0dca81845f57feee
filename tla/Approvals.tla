----------------------------- MODULE Approvals -----------------------------
(***************************************************************************)
(* The approvals that humans give (org-manager/src/hitl-service.ts), the   *)
(* applier that carries a decision out (approval-apply.ts), and the gates  *)
(* of TaskService and RequirementService.                                  *)
(*                                                                         *)
(* A decision can reach its target three times: by the request that        *)
(* recorded it, by the router and by the promise that the gate waits on;   *)
(* a claim on the approval lets one of them act.  The promise does not     *)
(* survive the process.  Every write of an approval is stored at once.     *)
(*                                                                         *)
(* The event loop finishes the jobs that a request leaves behind before    *)
(* the next request starts; the process may be killed between two jobs.    *)
(* One task with a human reviewer and one proposed requirement.            *)
(***************************************************************************)
EXTENDS Naturals, Sequences, FiniteSets, SequencesExt, TaskStatus

CONSTANT MaxApprovals   \* bound: the approvals ever opened

ASSUME ApprovalAssumption == MaxApprovals \in Nat \ {0}

Gates == {"task", "task_review", "requirement", "requirement_resubmit"}
Intents == {"approve", "request_changes", "reject"}
ApprovalStatus == {"pending", "approved", "changes_requested", "rejected", "cancelled"}
TERMINAL == {"completed", "failed", "rejected", "cancelled", "archived"}
\* What the gates tell apart; "in_progress" stands for the other statuses too.
RequirementStatus == {"pending", "in_progress", "rejected", "cancelled"}

VARIABLES
  status,    \* of the task and of the requirement ("absent": not created)
  hitl,      \* HITLService: approvals, pendingResolvers, and the queue of jobs
  outcome,   \* history: what the applier made of a decision
  effects,   \* history: what a decision did to its target, in order
  lost       \* history: approvals that a crash caught half way

vars == <<status, hitl, outcome, effects, lost>>
Ids == 1..MaxApprovals

Init ==
  /\ status = [t \in {"task", "requirement"} |-> "absent"]
  /\ hitl = [approvals |-> <<>>, waiters |-> {}, jobs |-> <<>>]
  /\ outcome = [a \in Ids |-> "none"]
  /\ effects = [a \in Ids |-> <<>>]
  /\ lost = {}

targetOfApproval(gate) == IF gate \in {"task", "task_review"} THEN "task" ELSE "requirement"

\* The state in which the decision of a gate still applies.
window(gate) == IF gate = "task_review" THEN "review" ELSE "pending"
canApplyApproval(gate) == status[targetOfApproval(gate)] = window(gate)

Known(h) == 1..Len(h.approvals)
pendingOf(h, t) ==
  {a \in Known(h) : h.approvals[a].status = "pending" /\ targetOfApproval(h.approvals[a].gate) = t}
Room == Len(hitl.approvals) < MaxApprovals
Idle == hitl.jobs = <<>>

-----------------------------------------------------------------------------
(* HITLService. *)

\* An answer carries an option and a boolean.  The option "reject" of a review
\* asks for changes; without an option the boolean decides.
resolveApprovalIntent(gate, option, approved) ==
  CASE option = "reject" /\ gate = "task_review" -> "request_changes"
    [] option \in Intents -> option
    [] OTHER -> IF approved THEN "approve" ELSE "reject"

intentToApprovalStatus(intent) ==
  CASE intent = "approve" -> "approved"
    [] intent = "reject"  -> "rejected"
    [] OTHER -> "changes_requested"

job(op, a) == [op |-> op, a |-> a]

requestApprovalAndWait(h, gate) ==
  [h EXCEPT !.approvals = Append(@, [gate |-> gate, status |-> "pending", intent |-> "none",
                                     applied |-> FALSE]),
            !.waiters = @ \union {Len(h.approvals) + 1}]

\* A decision that only reaches the promise (mutant).
respondToWaiter(h, a, intent) ==
  [h EXCEPT !.approvals[a].status = intentToApprovalStatus(intent),
            !.approvals[a].intent = intent,
            !.waiters = @ \ {a},
            !.jobs = @ \o (IF a \in h.waiters THEN <<job("resolve", a)>> ELSE <<>>)]

\* The promise is resolved first, but its callback is two jobs away: the
\* router, one job away, reaches the applier before it.
respondToApproval(h, a, intent) ==
  [h EXCEPT !.approvals[a].status = intentToApprovalStatus(intent),
            !.approvals[a].intent = intent,
            !.waiters = @ \ {a},
            !.jobs = @ \o (IF a \in h.waiters THEN <<job("resolve", a)>> ELSE <<>>)
                       \o <<job("route", a)>>]

cancelApprovalsByDetail(h, t) ==
  LET gone == pendingOf(h, t)
      woken == gone \intersect h.waiters
  IN [h EXCEPT !.approvals = [a \in Known(h) |->
                                IF a \in gone THEN [@[a] EXCEPT !.status = "cancelled", !.intent = "reject"]
                                              ELSE @[a]],
               !.waiters = @ \ gone,
               !.jobs = @ \o [i \in 1..Cardinality(woken) |-> job("resolve", SetToSeq(woken)[i])]]

\* The claim is not looked at (mutant).
claimApplyAgain(h, a) == TRUE

\* The check and the write of the claim are one step.
claimApply(h, a) == ~h.approvals[a].applied

-----------------------------------------------------------------------------
(* Changes of the targets. *)

\* An ended task withdraws its approvals.
cleanupOnLeaveStatus(h, to) == IF to \in TERMINAL THEN cancelApprovalsByDetail(h, "task") ELSE h

\* A task that enters review asks its reviewer, once for every entry.
notifyHumanReviewer(h, to) == IF to = "review" THEN requestApprovalAndWait(h, "task_review") ELSE h

\* The side effects of a status change, in their order.
handleTransitionSideEffects(h, to) == notifyHumanReviewer(cleanupOnLeaveStatus(h, to), to)

\* approveTask, rejectTask, approveRequirement, rejectRequirement: a pending
\* approval of the target, if there is one, is answered along the way.
Answered(h, t, intent) ==
  IF pendingOf(h, t) = {} THEN {h}
  ELSE {respondToApproval(h, a, intent) : a \in pendingOf(h, t)}

\* An approved task starts, waits for its blockers, or for its schedule.
ApprovedAs(t) == IF t = "task" THEN {"in_progress", "blocked", "completed"} ELSE {"in_progress"}

Settle(h, t, intent) ==
  \E to \in (IF intent = "approve" THEN ApprovedAs(t) ELSE {"rejected"}), r \in Answered(h, t, intent) :
     /\ status' = [status EXCEPT ![t] = to]
     /\ hitl' = IF t = "task" THEN handleTransitionSideEffects(r, to) ELSE r

-----------------------------------------------------------------------------
(* ApprovalApplier.apply, and the jobs that lead to it. *)

Finish(a, o) == outcome' = [outcome EXCEPT ![a] = IF @ = "none" THEN o ELSE @]
Effect(a, e) == effects' = [effects EXCEPT ![a] = Append(@, e)]
Rest(h) == [h EXCEPT !.jobs = Tail(@)]

\* The window, then the claim, then the port of the gate, without a pause.
Apply(h, a) ==
  \/ /\ ~canApplyApproval(h.approvals[a].gate)
     /\ hitl' = h
     /\ Finish(a, "out-of-window")
     /\ UNCHANGED <<status, effects, lost>>
  \/ /\ canApplyApproval(h.approvals[a].gate)
     /\ ~claimApply(h, a)
     /\ hitl' = h
     /\ UNCHANGED <<status, outcome, effects, lost>>
  \/ /\ canApplyApproval(h.approvals[a].gate)
     /\ claimApply(h, a)
     /\ hitl' = [h EXCEPT !.approvals[a].applied = TRUE,
                          !.jobs = <<job("port", a)>> \o @]
     /\ UNCHANGED <<status, outcome, effects, lost>>

\* Whatever is not an approval rejects the target (mutant).
applyBoolean(gate, intent) == IF intent = "approve" THEN "approve" ELSE "reject"

\* What a gate makes of a decision: the gate of a review knows no rejection,
\* and changes are asked for by a comment.
applyApprovalDecision(gate, intent) ==
  IF intent = "request_changes" \/ (gate = "task_review" /\ intent = "reject") THEN "changes" ELSE intent

Port(h, a) ==
  LET gate == h.approvals[a].gate
      t == targetOfApproval(gate)
      what == applyApprovalDecision(gate, h.approvals[a].intent)
  IN \/ /\ what = "changes"
        /\ hitl' = [h EXCEPT !.jobs = Append(@, job("comment", a))]
        /\ UNCHANGED <<status, outcome, effects, lost>>
     \/ /\ what # "changes" /\ gate # "task_review"
        /\ Settle(h, t, what)
        /\ Finish(a, "applied") /\ Effect(a, what)
        /\ UNCHANGED lost
     \/ /\ what # "changes" /\ gate = "task_review"
        /\ status' = [status EXCEPT !.task = "completed"]
        /\ hitl' = handleTransitionSideEffects(h, "completed")
        /\ Finish(a, "applied") /\ Effect(a, what)
        /\ UNCHANGED lost

\* The comment is stored, or not; the gate of a review then restarts the task.
\* The awaits of postTaskComment continue in jobs of the same turn, since the
\* repository behind them is synchronous (sqlite-storage.ts, DatabaseSync): a
\* request, which is a turn of its own, cannot come in between.
Comment(h, a) ==
  LET review == h.approvals[a].gate = "task_review"
      possible == review => "in_progress" \in transitions[status.task]
  IN \/ /\ possible
        /\ status' = IF review THEN [status EXCEPT !.task = "in_progress"] ELSE status
        /\ hitl' = IF review THEN handleTransitionSideEffects(h, "in_progress") ELSE h
        /\ Finish(a, "applied") /\ Effect(a, "changes")
        /\ UNCHANGED lost
     \/ /\ hitl' = h
        /\ Finish(a, "failed")
        /\ UNCHANGED <<status, effects, lost>>

\* The next job of the event loop.  A promise hands its value on, and its
\* callback looks at the target before it routes.
runJob ==
  /\ ~Idle
  /\ LET j == Head(hitl.jobs)
         h == Rest(hitl)
     IN \/ /\ j.op = "resolve"
           /\ hitl' = [h EXCEPT !.jobs = Append(@, job("then", j.a))]
           /\ UNCHANGED <<status, outcome, effects, lost>>
        \/ /\ j.op = "then" /\ ~canApplyApproval(h.approvals[j.a].gate)
           /\ hitl' = h
           /\ UNCHANGED <<status, outcome, effects, lost>>
        \/ /\ j.op = "then" /\ canApplyApproval(h.approvals[j.a].gate)
           /\ Apply(h, j.a)
        \/ j.op = "route" /\ Apply(h, j.a)
        \/ j.op = "port" /\ Port(h, j.a)
        \/ j.op = "comment" /\ Comment(h, j.a)

-----------------------------------------------------------------------------
(* Requests. *)

Unrecorded == UNCHANGED <<outcome, effects, lost>>

\* createTask and createRequirement, by an agent.
create(t) ==
  /\ Idle /\ Room /\ status[t] = "absent"
  /\ status' = [status EXCEPT ![t] = "pending"]
  /\ hitl' = requestApprovalAndWait(hitl, t)
  /\ Unrecorded

\* POST /api/approvals/:id: records the decision and applies it before any job.
postApproval(a, option, approved) ==
  /\ Idle /\ hitl.approvals[a].status = "pending"
  /\ LET r == respondToApproval(hitl, a, resolveApprovalIntent(hitl.approvals[a].gate, option, approved))
     IN Apply(r, a)

\* A tap on a card records the decision.  A choice that needs words is refused.
tapCard(a, option) ==
  /\ Idle /\ hitl.approvals[a].status = "pending"
  /\ hitl.approvals[a].gate = "task_review" => option # "reject"
  /\ hitl' = respondToApproval(hitl, a,
               resolveApprovalIntent(hitl.approvals[a].gate, option, option = "approve"))
  /\ UNCHANGED status /\ Unrecorded

\* approveTask, rejectTask, approveRequirement, rejectRequirement as endpoints.
decideDirectly(t, intent) ==
  /\ Idle /\ status[t] = "pending"
  /\ Settle(hitl, t, intent)
  /\ Unrecorded

\* Opens another approval beside the open one (mutant).
requestTaskApprovalAlways ==
  /\ Idle /\ Room /\ status.task = "pending"
  /\ hitl' = requestApprovalAndWait(hitl, "task")
  /\ UNCHANGED status /\ Unrecorded

\* requestTaskApproval: refused while an approval of the task is open.
requestTaskApproval ==
  /\ Idle /\ Room /\ status.task = "pending"
  /\ pendingOf(hitl, "task") = {}
  /\ hitl' = requestApprovalAndWait(hitl, "task")
  /\ UNCHANGED status /\ Unrecorded

requestRequirementApproval ==
  /\ Idle /\ Room /\ status.requirement = "pending"
  /\ pendingOf(hitl, "requirement") = {}
  /\ hitl' = requestApprovalAndWait(hitl, "requirement")
  /\ UNCHANGED status /\ Unrecorded

resubmitRequirement ==
  /\ Idle /\ Room /\ status.requirement = "rejected"
  /\ status' = [status EXCEPT !.requirement = "pending"]
  /\ hitl' = requestApprovalAndWait(hitl, "requirement_resubmit")
  /\ Unrecorded

\* Everyone else who moves the task: agents, reviewers, the scheduler, users.
\* A pending task can only be cancelled.
updateTaskStatus(to) ==
  /\ Idle /\ status.task # "absent"
  /\ to \in transitions[status.task]
  /\ status.task = "pending" => to = "cancelled"
  /\ to = "review" => Room
  /\ status' = [status EXCEPT !.task = to]
  /\ hitl' = handleTransitionSideEffects(hitl, to)
  /\ Unrecorded

\* Any status to any other; the approvals are left alone.
updateRequirementStatus(to) ==
  /\ Idle /\ status.requirement \notin {"absent", to}
  /\ status' = [status EXCEPT !.requirement = to]
  /\ UNCHANGED hitl /\ Unrecorded

cancelRequirement ==
  /\ Idle /\ status.requirement # "absent"
  /\ status' = [status EXCEPT !.requirement = "cancelled"]
  /\ hitl' = cancelApprovalsByDetail(hitl, "requirement")
  /\ Unrecorded

-----------------------------------------------------------------------------
(* The process. *)

Decided(h) == {a \in Known(h) : h.approvals[a].status \notin {"pending", "cancelled"}}

\* Jobs and promises are gone; setApprovalRepo restores the approvals.
restarted(h) == [h EXCEPT !.waiters = {}, !.jobs = <<>>]

crash ==
  /\ hitl' = restarted(hitl)
  /\ hitl' # hitl
  /\ lost' = lost \union {a \in Decided(hitl) : outcome[a] = "none"}
  /\ UNCHANGED <<status, outcome, effects>>

\* The approvals of an ending task are withdrawn before its status is stored.
crashWhileEnding ==
  /\ Idle /\ pendingOf(hitl, "task") # {}
  /\ hitl' = restarted(cancelApprovalsByDetail(hitl, "task"))
  /\ lost' = lost \union pendingOf(hitl, "task")
  /\ UNCHANGED <<status, outcome, effects>>

Next ==
  \/ runJob \/ crash \/ crashWhileEnding
  \/ \E t \in {"task", "requirement"} : create(t)
  \/ \E a \in Known(hitl), option \in Intents \union {"none"} :
        \/ \E approved \in BOOLEAN : postApproval(a, option, approved)
        \/ option # "none" /\ tapCard(a, option)
  \/ \E t \in {"task", "requirement"}, intent \in {"approve", "reject"} : decideDirectly(t, intent)
  \/ requestTaskApproval \/ requestRequirementApproval \/ resubmitRequirement
  \/ \E to \in Status : updateTaskStatus(to)
  \/ \E to \in RequirementStatus : updateRequirementStatus(to)
  \/ cancelRequirement

Spec == Init /\ [][Next]_vars

-----------------------------------------------------------------------------
(* Properties. *)

Jobs == [op : {"resolve", "then", "route", "port", "comment"}, a : Ids]

\* The types of the approvals, of the queue and of the histories.
TypeOK ==
  /\ status.task \in Status \union {"absent"}
  /\ status.requirement \in RequirementStatus \union {"absent"}
  /\ Len(hitl.approvals) <= MaxApprovals
  /\ \A a \in Known(hitl) :
        hitl.approvals[a] \in [gate : Gates, status : ApprovalStatus,
                              intent : Intents \union {"none"}, applied : BOOLEAN]
  /\ hitl.waiters \subseteq Ids
  /\ \A i \in DOMAIN hitl.jobs : hitl.jobs[i] \in Jobs
  /\ outcome \in [Ids -> {"none", "applied", "out-of-window", "failed"}]
  /\ \A a \in Ids : \A i \in DOMAIN effects[a] : effects[a][i] \in {"approve", "reject", "changes"}
  /\ lost \subseteq Ids

\* A decision moves its target at most once, although the request, the router
\* and the promise of the gate all carry it there, and although asking for
\* changes leaves no trace in the status of the target (claimApply).
AppliedOnce == \A a \in Ids : Len(effects[a]) <= 1

\* What happened to a target on account of an approval is what the approval
\* says: changes asked for never end a target, a review is never rejected, and
\* an approval that was withdrawn, and wakes its promise with a rejection,
\* does nothing.
MovedAsDecided ==
  \A a \in Known(hitl) : \A i \in DOMAIN effects[a] :
     LET says == hitl.approvals[a].status
         review == hitl.approvals[a].gate = "task_review"
     IN CASE effects[a][i] = "approve" -> says = "approved"
          [] effects[a][i] = "reject"  -> says = "rejected" /\ ~review
          [] effects[a][i] = "changes" -> says = "changes_requested" \/ (says = "rejected" /\ review)

\* A recorded decision reaches the applier, whoever recorded it and although
\* the promise died with an earlier process, unless the process is killed in
\* the same turn of the event loop (decisionRouter).
DecisionRouted ==
  Idle => \A a \in Decided(hitl) : outcome[a] # "none" \/ a \in lost

\* A task that waits for approval can be answered in exactly one place, or it
\* was sent back, or a crash came between: the loop of changes and new
\* requests never opens a second gate and never loses the task.
OneOpenGate ==
  Idle /\ status.task = "pending" =>
    LET gates == {a \in Known(hitl) : hitl.approvals[a].gate = "task"}
        last == CHOOSE a \in gates : \A b \in gates : b <= a
    IN /\ gates # {}
       /\ pendingOf(hitl, "task") \subseteq {last}
       /\ hitl.approvals[last].status \in {"pending", "changes_requested"} \/ last \in lost

=============================================================================
