# Markus: formal models and proofs

Markus runs organisations of AI agents: each agent is a long-lived object in one
Node.js process that takes work from a mailbox, runs turns of a language model
with tools, and writes what happened to a SQLite database. This directory holds
TLA+ models of the parts of it where order, failure and concurrency decide
whether the program is right, TLC runs over small instances of them, and TLAPS
proofs that hold for instances of every size.

`PROJECT.json` is the index: components, runs, mutants, the map from definitions
to source lines, findings, hazards and theorems. Paths below are relative to
`src/packages/`.

Contents: 1 inventory · 2 modules · 3 runs · 4 what disagrees · 5 proofs ·
6 not modelled · 7 plan

## 1. Inventory

### Resource lock registry (`core/src/resource-locks.ts`)

*State*: per domain a FIFO queue of waiters, and the list of granted requests;
per call chain, in an AsyncLocalStorage context, the locks it holds.
*Operations*: `withLocks` sorts the requests and takes them one after the other,
each with a re-entrancy test and a nesting-conflict error; the critical section;
release in reverse order; `pump` after every release and every new waiter.
*Used by*: the agent's tool loop, around every tool that writes.
*Hard*: parallel tool calls of one turn inherit the context of their parent and
may outlive it; a domain and its sub keys conflict; `*` conflicts with all.
*Correct when*: conflicting locks are never held together, nothing leaks when a
call throws, a chain never waits for itself, no grant is lost, and a waiter of a
named domain runs as long as nobody takes `*`.

### Agent mailbox (`core/src/mailbox.ts`, `shared/src/types/mailbox.ts`)

*State*: the array of queued items sorted by priority, the entity locks of the
worker pool, the identifier of the heartbeat in process; behind them the table
`mailbox_items` with status, claim, lease, `queued_at` and a unique
deduplication key.
*Operations*: `enqueue` (merge into a queued item, fold a heartbeat, suppress or
reinject a review round, insert), `dequeue`, `putBack`, `requeue`, `complete`,
`drop`, `defer`, `deferDequeued`, `merge`, `dequeueById`, `updatePriority`,
`purgeStaleItems`, `consolidateByEntity`, `resurfaceDue`,
`dropStatusUpdatesByTaskId`, `cleanStaleProcessing`, `renewLease`,
`reEnqueueOnShutdown`, `recoverStaleItems`.
*Hard*: memory and table are written separately and the process can die in
between; leases run out under a worker that is still busy; producers deliver the
same round twice; operators drop items that are queued, worked on, or done.
*Correct when*: nothing the table calls open is forgotten, nothing is queued
twice, a review round is worked on once, strict items (executions, reviews, owed
actions) are neither dropped, deferred nor merged, priorities are respected.

### Attention controller (`core/src/attention.ts`)

*State*: the item in focus and its batch, the interrupt and cancel flags, the
retry counters, the generation of the loop.
*Operations*: the serial loop (coalesce, tidy, triage by deliberation, process,
settle), the pool of workers (dequeue, lock entities, process, settle, unlock),
yield points inside a turn (continue, merge, preempt, cancel), stop, watchdog.
*Hard*: deliberation and turns last minutes, so their results meet a queue that
has changed; one turn can end in eight ways, and each has to settle the item
and its batch; workers share fields.
*Correct when*: two workers never work on one task, requirement, conversation or
session; every way out of a turn settles the item; deferred work is resumed.

### Task service: dispatch (`org-manager/src/task-service.ts`, `shared/src/types/task.ts`, `execution.ts`)

*State*: the status of a task, its execution round, the record of the execution
epoch that is not settled, its cancel token, the dispatch that waits behind it,
retry counters, callbacks of timers.
*Operations*: thirteen paths ask for an execution (`runTask`, `runTaskFresh`);
the agent processes it from its mailbox and reports through `onLog`; it settles
in `finally`, or is declared lost by `recoverLostTaskExecution`. Users pause,
resume, cancel, archive, rerun and stop; reviewers accept or ask for changes.
*Hard*: a request to run may arrive while the last execution drains; a stop has
eight reasons, of which some ask for another run; a late `finally` meets the next
epoch; the process dies with all the records.
*Correct when*: one execution at a time writes to the task's workspace, a task
that is in progress is being worked on or rests for a reason the code knows, and
an execution whose task has left `in_progress` has been told to stop.

### Task service: dependencies (same file)

*State*: status and `blockedBy` of every task, the failed blockers whose grace
window has passed, the marks the engine leaves in a task's notes.
*Operations*: a status change walks the dependents (unblock, cancel, fail,
recover), recursively and within one turn; a periodic pass repeats the look;
users edit the blockers.
*Correct when*: the graph has no cycle; between two turns no dependent waits for
something that has happened; a dependent that was failed in the name of a blocker
comes back with it; a propagation does not undo its own verdicts, and leaves alone
what failed for other reasons.

### Scheduled task runner (`org-manager/src/scheduled-task-runner.ts`)

*State*: `nextRunAt`, `maxRuns`, `currentRuns`, `paused` of a schedule, the
runner's start-up phase and its staggered timers.
*Operations*: poll, staggered start, fire (count and advance, then reset and
start), reclaim of a round whose agent is offline; pause, resume, run-now and
edits by users.
*Correct when*: a one-shot fires once, a counted run starts, a due round runs, a
round does not stay with an agent that has gone.

### Workflow runner (`org-manager/src/workflow-runner.ts`, `workflow-scheduler.ts`)

*State*: a run and its row, the step configurations in memory; the tasks of the
steps belong to the task service.
*Operations*: `createRun`, `onTaskStatusChange`, `pauseRun`, `resumeRun`,
`cancelRun`, `enforceTimeouts`, the healing in `listRuns`, `loadFromDB`.
*Hard*: cancelling a run cancels its tasks one after the other, each of which
moves its dependents and notifies the run that is being cancelled.
*Correct when*: the status of the run is the one its tasks imply, a cancelled run
stays cancelled, and a run whose steps have limits ends.

### Pending callbacks (`core/src/pending-callback.ts`, `tools/process-manager.ts`, `agent.ts`)

*State*: one registry for all agents and its table; the processes; who listens.
*Operations*: a tool result registers a call; the end of a process, the reply of
a peer, a sweep of due wakeups answer it; heartbeats report what timed out.
*Correct when*: a call is answered once, what is answered, reported or cancelled
stays so across restarts, recurring wakeups stay armed, a wakeup fires, an agent
hears of the end of its processes.

### Approvals (`org-manager/src/hitl-service.ts`, `approval-apply.ts`, `requirement-service.ts`)

*State*: approvals with status, intent and the claim of their application; the
promises that wait; the status of the task and of the requirement behind them.
*Operations*: open a gate, answer from the API, from a card in a messenger or by
deciding the target directly, route the decision, apply it, withdraw approvals.
*Hard*: one decision has three consumers; the promise does not survive a restart;
asking for changes leaves the target where it was.
*Correct when*: a decision takes effect once and as it was decided, it reaches its
target whoever recorded it, and a pending task can be answered in one place.

### How they interact

Producers (task service, API, timers, callbacks, other agents) call `enqueue`. A
loop claims an item in memory and in the table, runs a turn, and settles both.
Tools of the turn take resource locks, register callbacks, submit tasks, and may
drop, defer or reprioritise queued items. The task service sends executions and
review requests to the mailbox and is told of their ends through closures that
travel with the item; its status changes call the dependency engine, the
workflow runner and the approvals before they return. The runner of schedules and
the appliers of approvals change the status of tasks. Start-up turns what a dead
process left in the tables into queues, resumed tasks, runs and callbacks.

`PROJECT.json` lists every component, with the reason where one is left out: user
interfaces, messaging adapters, memory search, migrations and records with
create/read/update/delete are input and output or data; see section 6 for those
with logic of their own.

## 2. Modules

| module | models |
|---|---|
| `ResourceLocks`, `LockTable` | the lock registry, and what it promises |
| `Mailbox` | mailbox, table, serial loop, pool, crash and restart |
| `TaskStatus` | the matrix of statuses, shared by the modules about tasks |
| `TaskExecution` | one task: status, executions, retries, stops, review |
| `TaskDependencies` | the dependency engine over several tasks |
| `ScheduledTasks` | one scheduled task and the runner |
| `WorkflowRuns` | a run on top of an `INSTANCE` of `TaskDependencies` |
| `PendingCallbacks` | the registry of callbacks, processes, start and stop of agents |
| `Approvals` | approvals, their appliers, the gates of tasks and requirements |
| `MC...` | the instances that the runs check |
| `ResourceLocksProofs`, `MailboxProofs`, `TaskExecutionProofs`, `TaskDependenciesProofs`, `WorkflowRunsProofs`, `PendingCallbacksProofs`, `ScheduledTasksProofs`, `ApprovalsProofs` | proofs for every instance of the module they are named after |

In all of them an action is one JavaScript turn, from one `await` to the next,
with everything the turn changes; SQLite is synchronous, so a write to a table is
part of the turn. Where a crash may fall between two writes of one turn, an
action of its own says so.

### ResourceLocks

A request is a pair of numbers <<domain, sub>>, chosen so that the order of the
pairs is that of the strings `lockKey`. A chain is `idle`, `waiting`, `granted`
(its promise is resolved, its continuation has not run), `running` (inside the
critical section) or `releasing`. An action is one JavaScript turn, from one
`await` to the next: `withLocks`, `Resume`, `Finish`, `Release`, `Return`,
`Fork`. `acquireChain` is the whole recursion up to the next `await`, with
re-entrant entries skipped and the nesting error taken. `pump` is stated by its
fixpoint (which heads are granted, and that no other could be) instead of by its
loop; the only place where the order of the Map matters is `*` against the rest,
and the variable `ahead` keeps just that. `MutualExclusion` counts the locks that a
chain has taken itself (`own`). A forked call that is let in by a lock of its parent
(`:161`) takes none; when the parent gives the lock back first, the fork goes on
without protection, which the code allows and the property does not speak of.

### Mailbox

`queue` is the array, `rows` the table, `hand` and `stage` what each worker is
doing, `batch` what the serial loop took along, `locks` the entity locks,
`hbId` the heartbeat marker, `prio` the priority of the objects in memory (that
of the row may differ), `served` a history variable used by one property.

* A *message* is a record of its type, the flags the code reads, its priority,
  round and references. Contents, replies and promises are left out. A session
  is a reference of the message: the code resolves it when the worker locks, and
  the model takes that answer as given.
* A *row* has a status, a claim (`self` for this process, `dead` for an earlier
  one), whether its lease is valid, its age (0, past four hours, past three
  days) and priority. Each SQL statement is one operator on the rows.
* An *action* is one JavaScript turn. Whatever a turn changes is in it: the
  turn before triage puts the item back, purges, consolidates and takes the
  head in one action (`preTriage`); the end of a turn settles the item, its
  batch and the marker in one action.
* `Workers` with one element is `runLoop`; with more, `concurrentWorkerLoop`.
  `lockEntities` is the pool's step between `dequeueAsync` and the turn,
  `unlockEntities` its `finally`.
* The outcome of a turn is a free choice between `complete`, `requeue`, `drop`
  and `deferDequeued`; what becomes of the batch is tied to the outcome as in
  `processFocusedItem`. The retry counter is part of the free choice.
* The verdicts of deliberation are a free function from the items to keep,
  complete, batch, defer or drop, filtered as `applyDeliberationResult` does.
  The flag that aborts deliberation is not kept: with a user's message queued,
  both the abort and the result are possible, because that message may have
  been there before deliberation began.
* `Crash` kills the process between two turns, `CrashWhileSettling` between
  `updateStatus` and `releaseClaim`; both include the whole restart
  (`recoverStaleItems`, with orphans, time to live, deduplication and merge).
* `LeaseExpires` and `Age` are the clock. A row whose INSERT failed
  (`SaveFaults`) is absent from the table.

### LockTable

The abstract lock registry: claims (a chain and a request) are wanted or held. A
step adds one wanted claim or removes one held claim, and at the same time may
grant wanted claims as long as the table has no two conflicting claims; the table
is not left empty while somebody waits. `ResourceLocks` maps to it by the claims
on the stacks of the chains and those whose promise is resolved (`HeldClaims`),
and those in the queues (`QueuedClaims`): `ImplementsLockTable`.

### TaskExecution

`exec` holds the epochs that are not over, each with its phase (in the mailbox,
running, waiting for the automatic review of a submission, resolving, lost), its
cancel reason and whether its record is settled; `live` is
`liveExecutionByTask`, `deferred` the dispatch that waits, `calls` the
`setImmediate` and retry timers that will call `runTask`. `ghosts` are execution
items of the mailbox whose closures died with a process or with a reload.
`changeStatus` is `updateTaskStatus` with the side effects of leaving and
entering `in_progress`. `rest` is a history: why the last execution that ended
was not followed by another.

What an execution does is a free choice of the ways it may end. The record of
settled reviews is not kept: while a task is in review there is no settled entry
for its round, so the record refuses only what the status refuses. The agent's
registration of a running execution expires after 90 minutes in the code and
never in the model.

### TaskDependencies

`work` is the rest of the recursive propagation: while it is not empty, only the
engine acts, in any order, which includes the order of the code. The marks in
`notes` decide between an own failure and one in the name of a blocker; `mark` is the
last of them, which a user's reopening leaves where it is. `calm`, `own`, `edited`
and `changed` are histories that the properties use.

### ScheduledTasks

Time is relative: `next` is the distance to the next run, `{}` if there is none.
The result of the cron parser is any distance up to `Interval`. `firing` marks
the window between counting a run and starting it; only a crash falls into it.

### WorkflowRuns

The five variables of `TaskDependencies` are its own, and every step of the tasks
is a step of the instance `Dep` (`seen(A)`), followed in the same turn by
`onTaskStatusChange` for each task that changed; `missed(A)` is a step of the
tasks whose notification dies with the process. `Tick` is the scheduler's.

`cancelRun` is a check (`cancelRun`), one step for each task (`cancelNext`) and the
end (`cancelEnd`); `left` holds the tasks still to visit. The loop has no await, so
only the engine and a crash come between its steps. Each cancellation runs
`onTaskStatusChange` on a run that is still `running`, which may store it as failed or
cancelled before the loop ends. The loops of `pauseRun` and `resumeRun` are one step
each: none of the changes they make ends a task or moves another. `pauseRun` treats a
pending task as the code does, though the model, like the code, gives a run none.

### PendingCallbacks

A call has a kind (a process with and without a limit, the reply of a peer, a
wakeup, a recurring wakeup). `late` says that its time has come. `notifyCompletion`
happens twice for a process (`exit` and `close`); `crashWhileAnswering` is a
crash between the DELETE of the row and the INSERT of the answer. Starting a process
and registering its callback are one step: between the two the tool loop awaits only
promises that are already settled, and the events of a process wait for the turn to
end. The identity of a reply is that of a conversation (`agent.ts:7938`): the same
call may be made again, and its answers are counted from then on.

### Approvals

One task with a human reviewer and one requirement. The promise callbacks and the
router's calls that a request leaves behind are a queue of jobs, done in the order of
the microtask queue before the next request; the process may be killed between two of
them. The comment of a decision to ask for changes is awaited, but the repository behind
it is synchronous (`sqlite-storage.ts:2267`, `DatabaseSync`), so the rest of the
decision is a job of the same queue as well, and a request, which begins a turn of its
own, does not come in between. `effects` records what happened to the target on account
of each approval.

## 3. Runs

`tlc -config <run>.cfg <module>`; the longest takes about two minutes with two
workers.

| run | instance | shows |
|---|---|---|
| `locks` | 3 chains; `*`, a domain, a sub key of it, a second domain; one request per call, nesting 2, forks; fair | conflicting locks exclude each other, none leaks, no lost grant, no chain waits for itself; the registry implements `LockTable`; no starvation without `*` and nesting |
| `mailbox_pool` | 2 workers, 3 items from {execution, review, chat} on one task and one session | nothing lost, exclusion, no double entry, a round served once, strict items kept |
| `mailbox_serial` | serial loop, 2 items from {comment, heartbeat, status update, message of a peer, chat}, rows age past both limits, drops by id, failing INSERTs | nothing lost, queue in order, through merging, folding, purging, expiry, deferral, deliberation, stop, crash |
| `tasks_dispatch` | 2 epochs not over, 2 rounds, 2 retries, pause and fresh retry, crash, lost closures | one writer, one unsettled epoch, no work lost in silence, stopped when left |
| `tasks_progress` | 1 epoch, every other request of users, fair | a deferred dispatch is replayed; a task in progress comes to run |
| `tasks_dependencies` | 3 tasks, up to 2 blockers each, edits at any time | acyclic, re-evaluated, healed, nothing changed twice in one propagation |
| `tasks_own_failure` | 2 tasks, one blocker | a finding of section 4 |
| `schedule` | recurring, one-shot and broken schedules, 2 runs, agent on and off, restarts | one-shots once, counted runs start, due rounds run, stuck rounds are reclaimed |
| `workflow` | 2 steps with limits, one with a contract, users, crashes, cancellation task by task | the run follows its tasks, cancelled stays, the run ends |
| `callbacks` | 2 agents, 2 calls of 5 kinds, stops, starts, crashes | answered once, not resurrected, recurring kept, wakeups fire |
| `callbacks_completion` | 1 agent, 1 process | a finding of section 4 |
| `approvals` | a task, a requirement, 3 approvals | applied once, as decided, routed, one open gate |

**Bounds.** Locks: two chains conflict, the third is a bystander or a waiter behind
them; the requests are one that conflicts with all, one that conflicts with its sub key,
and two that do not conflict with each other. Mailbox: three items are the smallest
number with one in hand, one before and one behind it; the serial run has two, enough to
merge, fold, consolidate and batch, and spends its states on types, faults and time. One
task and one session are shared by different types, so that entity keys and session keys
conflict independently. Executions: two epochs are the one that drains and the one that
follows it; the gate keeps a third from being registered. Two rounds, two retries and
one repeated error reach every branch of the budgets. `tasks_progress` has one epoch
because its liveness needs no second one, and in return every request of users.
Dependencies: three tasks make a chain, a fork, a join and a cycle of three. Schedules:
tasks share no state of the runner, so one is enough; an interval of two tells "due"
from "next" and from "later". Workflow: two steps, one behind the other or side by side.
Callbacks: two agents share the registry, each may own both calls. Approvals: three
allow a gate, its reopening and the review that follows. Workers, tasks and epochs are
symmetric where no liveness is checked.

**Deadlock** is checked except in `locks` (two chains that each nest a
call inside a critical section may wait for each other; the sorted order of the
code holds within one call), in `tasks_progress` (an archived task has nothing
left to do) and in `approvals` (once all approvals are used up and both targets
have ended nothing more happens).

**What the properties allow.** `MutualExclusion` is about locks that a chain has taken
itself (see section 2). `NoStarvation` is about behaviours that from some point on take
no `*` and nest no calls; `shell_execute` does take `*` (`resource-locks.ts:18`), and
then the heads of other domains may wait for ever, as section 4 tells (that `*` itself
may be put off is a trade-off the header names, `:33-34`). Lists of two requests in one
call occur in the proofs and not in the run, whose calls have one request each, as every
caller of `withLocks` has. `NoItemLost` allows the two losses the code accepts: a row
whose owner died while settling it (it waits for the next start-up), and the message
that a stopped loop abandons because its sender waits and is told. `StrictKept` is about
strict items within their time to live that nobody works on; it excepts the items that
may be dropped by identifier, and the merge at a yield point of the serial loop.
`DueRoundRuns` excludes the crash between the count and the reset. `RunIsProjection` and
`RunEnds` exclude a run that was left behind by a crash, by a resume or by a step that
lacks its outputs (`unseen`), and one whose step configurations are lost.
`CancelledStays` allows a run that is being cancelled to be stored as failed or
cancelled under way, and says that it is not stored as completed. `AnsweredOnce` counts
answers: the process of a server that was reported as timed out may be answered later.
`RecurringKept` excludes the crash between DELETE and INSERT. `DecisionRouted` and
`OneOpenGate` exclude an approval that a crash caught half way. Each of these is told in
section 4.

**Fairness.** `ResourceLocks`: the steps the event loop takes by itself (a granted
continuation runs, a critical section ends, releases run), nothing of chains that choose
to call again. `TaskExecution`: timers and `setImmediate` callbacks run, an item in the
agent's mailbox is processed, a turn ends, a comment gets stored; users and reviewers
owe nothing. `ScheduledTasks`: the process is restarted, the two writes of a fire both
happen, time passes, and polls happen again and again both while the agent is online and
while it is offline (strong fairness, since an agent may come and go between two polls,
and an interval timer polls for ever). `WorkflowRuns`: the engine's turn ends and its
periodic pass comes, the process is restarted, time passes, the scheduler ticks, a loop
of `cancelRun` goes on, reviewers answer; agents may do nothing. `PendingCallbacks`:
time passes and the interval of the sweep fires; nothing of heartbeats, which a quiet
agent skips for ever. `Mailbox`, `TaskDependencies` and `Approvals` claim no liveness.

Every property of a passing run has a mutant in `PROJECT.json`: a changed
definition, written next to the original and marked in a comment, under which TLC
finds the property violated. `TypeOK` is checked by the runs of the locks and of the
mailbox only; it is proved, as a part of the inductive invariant, for the executions,
the dependencies, the callbacks and the schedules too.

## 4. What disagrees

Two runs check sentences of the repository that the code does not keep, with their
quotes under `findings`:

| run | the sentence | what happens |
|---|---|---|
| `callbacks_completion` | "You will be automatically notified when the process completes." | the agent subscribes to completions and heartbeats in its constructor, `stop()` takes both back, `start()` does not subscribe again: after a stop and a start nothing is delivered until the program restarts |
| `tasks_own_failure` | "a task that failed for its own reasons is never resurrected here" (`task-service.ts:4525`) | the last mark in the notes decides (`:4563`); it survives a user's reopening, and a dependent that the engine cancels gets it too (`:4622`). A task is cancelled in its blocker's name, reopened, fails by itself, and comes back when the blocker is archived |

Seen while modelling, by instances that are not kept as runs or by reading:

*Locks.* A call with two sub keys of one domain deadlocks behind a waiter for the
whole domain (`resource-locks.ts:218`; `:28` and `:128` say deadlock-free); no
caller passes two requests today. Chains that take `*` in turn starve the heads of
other domains (`:212`; `:29` says no starvation).

*Mailbox.* Recovery at start-up drops strict items past their time to live
(`mailbox.ts:341`), and a requeue does not refresh `queued_at`. `drop`,
`deferDequeued` and `merge` leave the heartbeat marker set, so later heartbeats are
folded into nothing (`:1178`, against `:645`). Dropping a completed review by id
lets its round be delivered again (`:1182`). A turn that ends abnormally requeues
its item and completes its batch (`attention.ts:1201`, against `:1168`).
`checkYieldPoint` merges strict items (`:1528`). Equal priorities are served newest
first, though `docs/architecture/mailbox-system.md:43` says FIFO. Deferred items
are resurfaced by the serial loop only. The watchdog's cleaning branch tests a
condition the line before has made false (`:538`). `lastYieldDecision` is shared
by the pool's workers. Leases of a batch are not renewed (`:975`). An exception in
`applyDeliberationResult` after the item was put back requeues it twice.

*Task executions.* While the comment of a revision is being stored the task is still in
review, with the round already advanced (`task-service.ts:5523`): a verdict that arrives
then completes the task, and the stored revision reopens it, though `:338-341` says that
a second verdict on a round moves nothing. Only continuations of promises come in
between as long as the repository is synchronous, so the two verdicts have to be
parallel tool calls of one turn of the reviewer; `TaskExecution` lets any request come
in between. The agent forgets a running execution after 90 minutes (`agent.ts:3455`);
the gate of the task service does not.

*Dependencies.* A rejected blocker is not propagated (`:3635`). The
periodic pass takes up a paused task whose blockers are done (`:4363`, against
`docs/architecture/state-machines.md:63`). A blocker that failed and was then archived
counts as done.

*Schedules.* A crash between the count and the reset loses the round
(`scheduled-task-runner.ts:181`). A stagger timer after a restart does not look at
`maxRuns` again (`:125`). A schedule whose `every` does not parse is fired by every
poll. Editing `maxRuns` or the time zone of a one-shot recomputes `nextRunAt` to
none (`task-service.ts:5808`). A one-shot, or the last counted round, whose agent
is offline is not reclaimed. A cancelled task whose schedule is resumed never fires.

*Workflows.* `attemptStepRetry` asks for the status `pending`, which the matrix never
allows from `failed`, so retries do not happen. A missing output asks for completed →
failed, which is illegal, so the run is left as it was, though a comment says it fails
loudly. `stepConfigs` are not stored, so limits and contracts are lost with the process.
`resumeRun` does not derive the status; `loadFromDB` does not heal; a derived
"cancelled" stays though a task is reopened; a run that is being cancelled may be
announced as failed first, by the notifications of its own cancellations; a step in
review cannot be failed by its limit until its reviewer answers.

*Callbacks.* Timeouts and finished processes are read from one list for all agents, so
the heartbeat of one agent consumes those of another (`agent.ts:9882`). A heartbeat that
finds nothing changed skips the timeouts. A completion may be told twice, by message and
by heartbeat, and that of a server after its timeout was reported. A crash between
DELETE and INSERT loses an answer or a recurring wakeup. The repository does not store
`origin_scenario`.

*Approvals.* A review approval of an earlier round stays open when the task goes back
to work and is applied to a later round, since the window looks at the status only
(`task-service.ts:480`). The router reaches the applier before the promise
callback, contrary to the comment at `hitl-service.ts:865`; the claim makes it
harmless. A comment that cannot be stored leaves a claimed decision unapplied. A
crash between recording and applying leaves the target waiting.
`updateRequirementStatus` leaves approvals open, so a resubmission opens a second
gate; resubmission does not look at the limit of three proposals. Expiry is never
armed.

*Stream batcher.* A failed write loses its batch (`stream-write-batcher.ts:84`).

## 5. Proofs

Every module with a model has a module with proofs. They hold for every value of the
constants that satisfies the ASSUMEs: any finite set of chains, workers, tasks,
agents or calls, any requests or messages, any bound. The pattern is the same in all
of them: an inductive invariant `Inv`, checked with TLC first; `InitInv`, `NextInv`
with one lemma per action, under it one step per conjunct the action can disturb; a
theorem `Spec => []Inv`; and the properties of section 3 as its consequences, or, for
action properties, as consequences of `Inv` and a step.

What is assumed of the constants is what the code gives. Three assumptions are there
for the proofs: a workflow has at least one task (`workflow-service.ts:121` refuses
one without steps), the word that stands for "no execution" is not the name of an
execution, and a message that carries an execution is a `task_status_update`
(`agent.ts:1641-1657`, the one place where the flag is set; were a heartbeat an
execution, folding would drop a strict item). A theorem that needs more says so in its
own ASSUME: three theorems of the mailbox do.

**`ResourceLocksProofs`** has two invariants. `LockInvariant` carries `LockExclusion`
and `LockTypes`. Exclusion speaks of the locks on the chains' stacks; it is not
inductive, because a grant is decided by `pump` from `active`. The invariant adds that
requests in `active` do not conflict (`ActiveOK`), that everything a chain holds or
was granted is in `active` and is claimed by one chain only (`ClaimsOK`, so a release
takes away nobody else's lock), that a chain is queued at most once and for the
request it waits for (`QueuesOK`), and that the frames of nested calls are heights of
the stack (`FramesOK`, so a return releases its own locks only). A lemma states what
one `pump` may do to the queues and to `active`; each action is then a case.
`TableInvariant` is the converse direction: whatever is in `active` has a holder, a
holder is entered under its own chain (`OwnersOK`), the head of a queue has a reason to
wait, and no chain waits behind itself. From it `LocksDoNotLeak`, `GrantsAreNotLost`,
`ChainsDoNotBlockThemselves`, and `RegistryImplementsTable`: the refinement of
`LockTable`. A call adds a wanted claim, a release removes a held one, and both grant
what `pump` grants; the two invariants show that held claims stay free of conflicts and
that the table is not left empty while a claim waits.

**`MailboxProofs`** has two inductive invariants. `MailboxInvariant` carries
`WorkersExcludeEachOther` (`Spec => []EntityExclusion`) and `MailboxTypes`. Exclusion
is not inductive: that two workers' items have disjoint keys does not say that a third
may not lock one of them. The invariant is

* `TypeOK`;
* `Created`: queue, rows, batch and hands name only items that were created, so
  that `msg` is defined on them;
* `KeysTaken`: a pool worker past `lockEntities` is entered as the holder of
  every key of its item, until `unlockEntities`;
* `ItemsDiffer`: two such workers have different items, so a key with one
  holder belongs to one of them.

`ItemsDiffer` does not rest on the table: an item dropped by id, requeued by
cleanup or delivered again while its first worker is still busy *can* be handed
out a second time, and it is `lockEntities` that refuses it, because locks are
taken under the item's id and are not re-entrant. The second worker therefore
puts it back. This is why the theorem holds with drops, failed INSERTs, expired
leases and crashes, in the pool as well, where no run has drops. Lemmas state what
the queue operators return (`Kept`, `insertSorted`, `Loaded`) and what the row
operators preserve.

`PlaceInvariant` adds `PlaceInv`, which ties memory to the table:

* `RowSafe`, for every item: a queued row has an entry, or a holder, or the claim of a
  dead process; a row in processing has a holder, or was abandoned at a stop; a claim of
  this process is on a row that may be queued again, and if the row is queued or has an
  entry the item is held; a held strict item is not dropped unless by identifier.
* `OnePlace` and `OneHand`: an item that cannot be handed out twice is in the array
  once, not while somebody holds it, and in one hand or in the batch.
* `Shape`: an idle worker has nothing, an item under deliberation is not strict, a batch
  belongs to the serial loop at work, which locks nothing.
* `ClaimKept`: the row of an item that was claimed, and is not strict, is not queued
  before the turn starts.

Its proof goes through the steps that the actions are made of, each on an array, rows
and a set of held items (`SettlePlaced`, `SetStatusPlaced`, `RequeuePlaced`,
`ClaimPlaced`, `ThrowPlaced`, `TakePlaced`, `HoldPlaced`); an action is a chain of them.
What follows from it:

* `NothingIsLost` (`Spec => []NoItemLost`), for all constants.
* `StrictItemsKept` (`Spec => StrictKept`), for all constants. `StepStays` follows one
  row through every operator a step applies to it; with other statuses it also says that
  no step deletes a row.
* `EntriesAreUnique` (`Spec => []NoDoubleEntry`), if there are no drops by identifier or
  no messages with a review round. One of the two is needed: a review dropped by
  identifier while a worker has it is queued again when its round is delivered again,
  and requeued by the first worker as well.
* `QueueStaysSorted` (`Spec => []QueueSorted`), under the same hypothesis:
  `updatePriority` moves one entry of the item, and a second one would stay behind at
  the old place with the new priority.
* `RoundsServedOnce` (`Spec => []RoundServedOnce`), if there are no drops by identifier
  and no INSERT fails. The invariant `Rounds`: every item has its row, no two items are
  of one round, and what was completed for a round is over, that is, completed in the
  table, in no array and in no hand (`StepOver`). Both hypotheses are needed: a
  completed review can be dropped by identifier, which lets its round be delivered
  again, and without a row `findByDedupKey` finds nothing.

That these hypotheses cannot be left out was seen with TLC: with one item to drop by
identifier, or with failing INSERTs, it finds each of the violations described in nine
steps or fewer.

**`TaskExecutionProofs`**: `SingleWriter`, `SingleFlight`, `WorkIsNotLost`,
`ExecutionsAreStopped`, from `ExecutionInvariant`. The parts lean on one another.

* `OneUnsettled` and `OneRunning`: one epoch's record is not settled, and it alone can
  be with the agent; the gate in `runTask` looks at the record, not at the agent.
* `Listening`: a registered epoch that nobody told to stop holds the task's cancel
  token, and the task is in progress. So whatever takes the task out of `in_progress`
  reaches it: `ExecutionsAreStopped`.
* `DeferredOK`: a dispatch waits only for an epoch that is registered, so the `finally`
  of that epoch will find it.
* `CoveredOK`: when the registered epoch will not carry the task further (there is
  none, it resolves, or it was stopped by a status change or a fresh start), a waiting
  dispatch, a callback or a known reason (`rest`) stands in: `WorkIsNotLost`.
* `RejectingOK`: an epoch between its error and its `finally` was stopped by nothing
  else, so its retry is decided from the error.

**`TaskDependenciesProofs`**: `EngineInvariant` says that what a pass would still
decide (`PassOK`) or a blocker that is back would still heal (`HealOK`) is in the work
list of the running propagation, so nothing is left when it is empty, and that blockers
exist (`BlockersExist`). What the running
propagation has changed is not blocked, and has not failed with its blockers done
(`ChangedOK`), so it gives the propagation nothing to change again. From these
`PassIsIdempotent`, `FailedDependentsHeal`, and `EngineChangesOnce` as an action
property. `TasksAreAcyclic` is separate. The code's
cycle test walks the graph; the model's `Reach` is a recursive function with one round
per task, and nothing can be proved by induction over it. The proof gives its solution
in closed form (round n is where walks of n steps lead), shows by counting that the
last round is closed under blocking, and that it is the least such set
(`ReachIsLeast`). Acyclicity then needs no paths: after an edit, each task has a set
that contains its blockers, is closed, and leaves the task out, namely what the new
blockers reach, what the task reached before, or both together.

**`WorkflowRunsProofs`**: `RunsAreProjected` and `CancelledRunsStay`, from
`RunInvariant`. Its first part (`RunOK`) reads nothing of the tasks but their status: a
run in memory has the status of its row, a running row has its run in memory
(`RowIsHeld`), and the status is the derived one in every state, while a propagation
runs and while the process is down too (`Derived`), which a restart relies on. The
second part (`LoopOK`) is about the loop of `cancelRun`: every task it has visited has
ended, and stays so because the engine, which works on dependents of cancelled tasks
only (`DeadWork`), can do nothing but cancel (`EngineLook`); with a cancelled task among
them the tasks do not imply "completed" (`NotCompleted`).

**`PendingCallbacksProofs`**: `CallsAnsweredOnce`, `CallsStayResolved`,
`RecurringWakeupsKept`, from `CallbackInvariant`: the rows are those of the registry, so
a restart brings nothing back; a call that was not made has left no trace
(`FreshCalls`); a process with an origin is one whose end was not told
(`OriginsUnanswered`).

**`ScheduledTasksProofs`**: `OneShotFiresOnce` and `CountedRunsStart`, from
`ScheduleInvariant`: a one-shot that fired has no next occurrence
(`FiredIsConsumed`), and from the count to the reset the task is in a status that the
reset accepts (`CountedIsResettable`).

**`ApprovalsProofs`**: `DecisionsApplyOnce`, `DecisionsMoveAsDecided`,
`DecisionsAreRouted`, `OneGateIsOpen`, from `ApprovalInvariant`. The invariant is about
the jobs that a request leaves behind, as a relation `HInv` between the statuses, the
registry, a running job and the histories, so that lemmas can speak of the middle of
an action.

* `Once`: a claimed decision has exactly one job that carries it out, or has been
  carried out; the claim is made with the job (`claimApply`).
* `Recorded`: a decision does not change, and only a decision is claimed.
* `Said`: an effect is the one the approval says.
* `Away`: the jobs of a withdrawn approval find its target outside every window, so
  the rejection that wakes its promise does nothing. This is what makes the order
  in `cancelRequirement` and `cleanupOnLeaveStatus` matter.
* `Routed`: a decision without an outcome has its router's job, or the job that
  carries it out, or a crash caught it.
* `Gate`: the last gate of a pending task is open, was sent back, was caught by a crash
  or is about to move the task.

The lemma that carries most steps, `EvolveInv`, is about answers and withdrawals in
general: what the requests, the side effects of a status change and the endpoints
do to the registry is an instance of `Evolve`, composed with `EvolveTwice`.

Only model-checked:

* liveness under fairness and `ENABLED`, which are outside the proof system:
  `NoStarvation`, `DeferredReplayed`, `EventuallyRuns`, `DueRoundRuns`,
  `StuckReclaimed`, `RunEnds`, `WakeupFires`;
* `NotifiedOfCompletion`, which the finding's run refutes.

Every invariant and every action property of the passing runs is a theorem. Those of the
mailbox that need hypotheses are false without them, as told above, so neither a run nor
a theorem claims more.

## 6. Not modelled

* Two processes on one database, except that the second starts after the first
  died.
* The pool: resizing, idle waiters and their wake-ups, the shared yield state.
* The serial loop: exceptions inside the application of a deliberation result; the
  choice of what to merge at a yield point is free.
* `releaseExpiredLeases`: called only by the watchdog's disabled branch.
* The turn of an agent: LLM calls, tools and prompts are abstracted to the ways a
  turn can end. The LLM router's fallbacks depend on error texts and wall-clock
  windows.
* Cron triggers of workflows, variables and prompts of steps; the deprecated
  in-process workflow engine; the task queue in `core/src/concurrent`, which
  nothing uses.
* Approvals without a target (tools, questions to the user), notifications; the
  records of tasks and requirements that carry no control.
* The stale detector and the agent conservator, which call operations that are
  modelled; delivery to several mailboxes, which starts at `enqueue`; streams to
  the browser and the stream batcher; channels, remote access, migrations, user
  interfaces: input and output. These make up most of the lines of the repository.
* Contents of messages, the text of merged items, events and logs.

## 7. Plan

1. A finer model of the pool: resizing, the wake-ups of idle workers and the yield state
   that its workers share (`attention.ts:955`), with the liveness of a deferred item that
   only the serial loop resurfaces (`attention.ts:609`).
2. Two verdicts on one round of review, one of them held up by an awaited comment
   (`task-service.ts:5486`), and the execution that the agent forgets after 90 minutes
   (`agent.ts:3455`): both need a second clock or a second actor in `TaskExecution`.
3. An abstract mailbox, of messages that are delivered, in work or settled, and the
   refinement of `Mailbox` to it on the ground of `PlaceInv`, with the losses that
   `NoItemLost` allows as its own actions.
