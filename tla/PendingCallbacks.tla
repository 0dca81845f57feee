-------------------------- MODULE PendingCallbacks --------------------------
(***************************************************************************)
(* What an agent waits for outside its turns: background processes, the    *)
(* replies of peers and scheduled wakeups (core/src/pending-callback.ts,   *)
(* tools/process-manager.ts, and their users in agent.ts).                 *)
(*                                                                         *)
(* The registry is one Map for all agents, saved to a table and restored   *)
(* when the process starts.  An answer goes to the mailbox of the agent; a *)
(* call that nobody answered in time is reported by a heartbeat.  A turn   *)
(* of the event loop is one action; the process may be killed between the  *)
(* two writes of one, the DELETE of the row and the INSERT of the answer.  *)
(***************************************************************************)
EXTENDS Naturals, FiniteSets

CONSTANTS
  Agents,
  Calls,     \* the identities of the calls
  Kinds      \* the kinds of calls that the agents make

\* Killed after timeout_seconds (300 if not given), or never (0 or less).
Processes == {"exec", "server"}
Wakeups == {"wakeup", "recurring"}

ASSUME CallbackAssumption == Kinds \subseteq Processes \union Wakeups \union {"reply"}

VARIABLES
  kind,       \* what a call is ("none": not made yet)
  owner,      \* cb.agentId
  registry,   \* PendingCallbackRegistry.callbacks
  table,      \* pending_callbacks
  process,    \* the background process: none, running, exited or closed
  bgSessionOrigin, \* the processes that the owner still waits for
  notified,   \* the processes that a heartbeat has listed as completed
  late,       \* the calls whose timeout, or wakeAt, has passed
  running,    \* the agents that are started
  subscribed, \* the agents that listen to completions and heartbeats
  beats,      \* the agents with a heartbeat in the mailbox
  answers,    \* history: results put into the mailbox of the owner
  told,       \* history: the agents whose heartbeat reported the timeout
  ended       \* history: calls cancelled, or torn by a crash

callVars == <<kind, owner>>
procVars == <<process, bgSessionOrigin, notified>>
agentVars == <<running, subscribed, beats>>
vars == <<callVars, registry, table, procVars, late, agentVars, answers, told, ended>>

Init ==
  /\ kind = [c \in Calls |-> "none"]
  /\ owner \in [Calls -> Agents]
  /\ registry = {} /\ table = {}
  /\ process = [c \in Calls |-> "none"]
  /\ bgSessionOrigin = {} /\ notified = {} /\ late = {}
  /\ running = Agents /\ subscribed = Agents /\ beats = {}
  /\ answers = [c \in Calls |-> 0]
  /\ told = [c \in Calls |-> {}]
  /\ ended = {}

Of(K) == {c \in Calls : kind[c] \in K}

-----------------------------------------------------------------------------
(* The registry. *)

register(c) == registry' = registry \union {c} /\ table' = table \union {c}

resolve(C) == registry' = registry \ C /\ table' = table \ C

\* Mutant of expireTimedOut: the row stays.
expireTimedOutInMemory(C) == registry' = registry \ C /\ UNCHANGED table

expireTimedOut(C) == resolve(C)

\* Wakeups have a timeout that never passes.
getTimedOut == (registry \intersect late) \ Of(Wakeups)

\* registerAsyncCallbacksFromToolResult and schedule_wakeup.  Nothing but
\* continuations of promises runs between the start of a process and its
\* registration, so its events come later.  The identity of a reply is that of
\* the conversation: it is registered again with every message that asks for
\* an answer, and counted from 0 again.
call(c, k) ==
  /\ kind[c] = "none" \/ (kind[c] = "reply" /\ k = "reply")
  /\ owner[c] \in running
  /\ kind' = [kind EXCEPT ![c] = k]
  /\ register(c)
  /\ IF k \in Processes
       THEN /\ process' = [process EXCEPT ![c] = "running"]
            /\ bgSessionOrigin' = bgSessionOrigin \union {c}
       ELSE UNCHANGED <<process, bgSessionOrigin>>
  /\ late' = late \ {c}
  /\ answers' = [answers EXCEPT ![c] = 0]
  /\ told' = [told EXCEPT ![c] = {}]
  /\ ended' = ended \ {c}
  /\ UNCHANGED <<owner, notified, agentVars>>

\* cancel_wakeup, and the route of the API: no look at the kind.
cancel_wakeup(c) ==
  /\ c \in registry
  /\ resolve({c})
  /\ ended' = ended \union {c}
  /\ UNCHANGED <<callVars, procVars, late, agentVars, answers, told>>

\* A timeout passes, or a wakeup is due.  The registry waits longer than the
\* process is allowed to run.
time(c) ==
  /\ c \in registry \ late
  /\ kind[c] = "exec" => process[c] # "running"
  /\ late' = late \union {c}
  /\ UNCHANGED <<callVars, registry, table, procVars, agentVars, answers, told, ended>>

-----------------------------------------------------------------------------
(* Answers. *)

\* Mutant of onBackgroundCompletion: the origin is kept.
onBackgroundCompletionAgain(c) ==
  IF c \in bgSessionOrigin /\ owner[c] \in subscribed
    THEN /\ resolve({c})
         /\ answers' = [answers EXCEPT ![c] = @ + 1]
         /\ UNCHANGED bgSessionOrigin
    ELSE UNCHANGED <<bgSessionOrigin, registry, table, answers>>

\* The listener of the owner, and deliverCallback.
onBackgroundCompletion(c) ==
  IF c \in bgSessionOrigin /\ owner[c] \in subscribed
    THEN /\ bgSessionOrigin' = bgSessionOrigin \ {c}
         /\ resolve({c})
         /\ answers' = [answers EXCEPT ![c] = @ + 1]
    ELSE UNCHANGED <<bgSessionOrigin, registry, table, answers>>

\* "exit" (or the auto-kill) and then "close": both announce the completion.
notifyCompletion(c, from, to) ==
  /\ process[c] = from
  /\ process' = [process EXCEPT ![c] = to]
  /\ onBackgroundCompletion(c)
  /\ UNCHANGED <<callVars, notified, late, agentVars, told, ended>>

\* A message of the awaited conversation is worked on.
a2aReply(c) ==
  /\ c \in registry /\ kind[c] = "reply"
  /\ owner[c] \in running
  /\ resolve({c})
  /\ answers' = [answers EXCEPT ![c] = @ + 1]
  /\ UNCHANGED <<callVars, procVars, late, agentVars, told, ended>>

due(a) == {c \in registry \intersect late \intersect Of(Wakeups) : owner[c] = a}

\* Mutants of sweepDueWakeups: it asks for timeouts; it re-arms, then resolves.
sweepDueWakeupsByTimeout(a) ==
  LET D == due(a) \intersect getTimedOut
  IN /\ a \in running /\ D # {}
     /\ resolve(D)
     /\ answers' = [c \in Calls |-> IF c \in D THEN answers[c] + 1 ELSE answers[c]]
     /\ UNCHANGED <<callVars, procVars, late, agentVars, told, ended>>

sweepDueWakeupsRearmFirst(a) ==
  LET D == due(a)
      again == D \intersect Of({"recurring"})
  IN /\ a \in running /\ D # {}
     /\ resolve(D)
     /\ late' = late \ again
     /\ answers' = [c \in Calls |-> IF c \in D \ again THEN answers[c] + 1 ELSE answers[c]]
     /\ UNCHANGED <<callVars, procVars, agentVars, told, ended>>

\* Every due wakeup is resolved and delivered, a recurring one is registered
\* again (and its answers are counted from 0 again).
sweepDueWakeups(a) ==
  LET D == due(a)
      again == D \intersect Of({"recurring"})
  IN /\ a \in running /\ D # {}
     /\ resolve(D \ again)
     /\ late' = late \ again
     /\ answers' = [c \in Calls |-> IF c \in D \ again THEN answers[c] + 1 ELSE answers[c]]
     /\ UNCHANGED <<callVars, procVars, agentVars, told, ended>>

-----------------------------------------------------------------------------
(* Heartbeats, agents and the process. *)

heartbeatTrigger(a) ==
  /\ a \in subscribed \ beats
  /\ beats' = beats \union {a}
  /\ UNCHANGED <<callVars, registry, table, procVars, late, running, subscribed, answers, told, ended>>

\* The patrol is skipped when a human is served or nothing has changed.
recordHeartbeatSkip(a) ==
  /\ a \in running \intersect beats
  /\ beats' = beats \ {a}
  /\ UNCHANGED <<callVars, registry, table, procVars, late, running, subscribed, answers, told, ended>>

\* The patrol lists the completed processes and the calls that timed out, of
\* all agents.
handleHeartbeat(a) ==
  /\ a \in running \intersect beats
  /\ beats' = beats \ {a}
  /\ notified' = notified \union {c \in Calls : process[c] \in {"exited", "closed"}}
  /\ expireTimedOut(getTimedOut)
  /\ told' = [c \in Calls |-> IF c \in getTimedOut THEN told[c] \union {a} ELSE told[c]]
  /\ UNCHANGED <<callVars, process, bgSessionOrigin, late, running, subscribed, answers, ended>>

\* stop gives up the subscriptions that only the constructor makes.
stop(a) ==
  /\ a \in running
  /\ running' = running \ {a}
  /\ subscribed' = subscribed \ {a}
  /\ UNCHANGED <<callVars, registry, table, procVars, late, beats, answers, told, ended>>

start(a) ==
  /\ a \notin running
  /\ running' = running \union {a}
  /\ UNCHANGED <<callVars, registry, table, procVars, late, subscribed, beats, answers, told, ended>>

\* The process is killed and started again: the rows T are restored, the
\* background processes are out of reach.  A stopped agent is disabled and
\* stays so.
restart(T) ==
  /\ registry' = T /\ table' = T
  /\ process' = [c \in Calls |-> "none"]
  /\ bgSessionOrigin' = {} /\ notified' = {}
  /\ subscribed' = Agents
  /\ UNCHANGED <<callVars, late, running, beats, told>>

\* setPersistence.
crash == restart(table) /\ UNCHANGED <<answers, ended>>

\* The process is killed after the row of c was deleted, and before its
\* result was stored or its next occurrence was registered.
crashWhileAnswering(c) ==
  /\ c \in table
  /\ \/ c \in bgSessionOrigin /\ process[c] = "running" /\ owner[c] \in subscribed
     \/ kind[c] = "reply" /\ owner[c] \in running
     \/ c \in due(owner[c]) /\ owner[c] \in running
  /\ restart(table \ {c})
  /\ ended' = ended \union {c}
  /\ answers' \in {answers, [answers EXCEPT ![c] = @ + 1]}

Next ==
  \/ \E c \in Calls :
       \/ \E k \in Kinds : call(c, k)
       \/ cancel_wakeup(c) \/ time(c) \/ a2aReply(c)
       \/ notifyCompletion(c, "running", "exited") \/ notifyCompletion(c, "exited", "closed")
       \/ crashWhileAnswering(c)
  \/ \E a \in Agents :
       \/ sweepDueWakeups(a)
       \/ heartbeatTrigger(a) \/ recordHeartbeatSkip(a) \/ handleHeartbeat(a)
       \/ stop(a) \/ start(a)
  \/ crash

Spec == Init /\ [][Next]_vars

\* Time passes and the timer of the sweep fires.  No fairness of heartbeats:
\* a quiet agent skips its patrols for ever.
FairSpec ==
  /\ Spec
  /\ \A c \in Calls : WF_vars(time(c))
  /\ \A a \in Agents : WF_vars(sweepDueWakeups(a))

-----------------------------------------------------------------------------
\* Every variable has a value of its kind, and only processes that were started
\* are waited for or listed.
TypeOK ==
  /\ kind \in [Calls -> Kinds \union {"none"}] /\ owner \in [Calls -> Agents]
  /\ registry \subseteq Calls /\ table \subseteq Calls /\ late \subseteq Calls
  /\ process \in [Calls -> {"none", "running", "exited", "closed"}]
  /\ bgSessionOrigin \union notified \subseteq {c \in Calls : process[c] # "none"}
  /\ running \subseteq Agents /\ subscribed \subseteq Agents /\ beats \subseteq Agents
  /\ answers \in [Calls -> Nat] /\ told \in [Calls -> SUBSET Agents] /\ ended \subseteq Calls

\* "exit", "close" and the auto-kill all announce a completion, timers sweep
\* and processes are killed: a call is answered at most once.  (A report that
\* it timed out is no answer: a process that runs on may still give one.)
AnsweredOnce == \A c \in Calls : answers[c] <= 1

\* A call that was answered, reported or cancelled is not waited for again
\* until it is made again, not even after the table was read again: no answered
\* call is reported as timed out later, and none is reported twice.
NotResurrected ==
  \A c \in registry : answers[c] = 0 /\ told[c] = {} /\ c \notin ended

\* A recurring wakeup stays armed until it is cancelled, or a crash tears it.
RecurringKept == Of({"recurring"}) \subseteq registry \union ended

\* A wakeup fires, whatever is stopped, started or restored meanwhile, unless
\* its agent is stopped for good.
WakeupFires ==
  \A c \in Calls :
    kind[c] = "wakeup" ~> c \notin registry \/ owner[c] \notin running

\* "You will be automatically notified when the process completes": an agent
\* that runs when its process closes has the result.
NotifiedOfCompletion ==
  [][\A c \in Calls :
       process[c] = "exited" /\ process'[c] = "closed" /\ owner[c] \in running
         => answers'[c] > 0]_vars

=============================================================================
