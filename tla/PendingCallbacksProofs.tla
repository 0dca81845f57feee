----------------------- MODULE PendingCallbacksProofs -----------------------
(***************************************************************************)
(* Proof that a pending callback is answered once, is never waited for     *)
(* again, and that a recurring wakeup stays armed, for any agents, calls   *)
(* and kinds of calls.                                                     *)
(***************************************************************************)
EXTENDS PendingCallbacks, TLAPS

\* A call that was not made yet has left no trace.
FreshCalls ==
  \A c \in Calls : kind[c] = "none" =>
    /\ c \notin registry /\ c \notin bgSessionOrigin /\ c \notin ended
    /\ answers[c] = 0 /\ told[c] = {}

\* A process that the owner waits for has not been answered, whether the
\* registry still knows it or not.
OriginsUnanswered ==
  \A c \in bgSessionOrigin : kind[c] \in Processes /\ answers[c] = 0

\* The inductive invariant.  The rows are those of the registry, so a restart
\* brings nothing back.
Inv ==
  /\ TypeOK
  /\ table = registry
  /\ FreshCalls
  /\ OriginsUnanswered
  /\ AnsweredOnce
  /\ NotResurrected
  /\ RecurringKept

-----------------------------------------------------------------------------
\* Nothing was called yet: the invariant holds.
LEMMA InitInv == Init => Inv
<1> SUFFICES ASSUME Init PROVE Inv
  OBVIOUS
<1>1. TypeOK
  BY DEF Init, TypeOK
<1>2. table = registry /\ FreshCalls /\ OriginsUnanswered /\ NotResurrected
  BY DEF Init, FreshCalls, OriginsUnanswered, NotResurrected
<1>3. AnsweredOnce /\ RecurringKept
  BY DEF Init, AnsweredOnce, RecurringKept, Of
<1> QED BY <1>1, <1>2, <1>3 DEF Inv

\* A call is made with an identity that left no trace, or a reply is asked for
\* again, which forgets what became of it before.
LEMMA CallInv ==
  ASSUME Inv, NEW c \in Calls, NEW k \in Kinds, call(c, k)
  PROVE  Inv'
<1>1. /\ kind[c] = "none" \/ (kind[c] = "reply" /\ k = "reply")
      /\ kind' = [kind EXCEPT ![c] = k]
      /\ registry' = registry \union {c} /\ table' = table \union {c}
      /\ \/ /\ k \in Processes /\ process' = [process EXCEPT ![c] = "running"]
            /\ bgSessionOrigin' = bgSessionOrigin \union {c}
         \/ process' = process /\ bgSessionOrigin' = bgSessionOrigin
      /\ late' = late \ {c} /\ ended' = ended \ {c}
      /\ answers' = [answers EXCEPT ![c] = 0] /\ told' = [told EXCEPT ![c] = {}]
      /\ UNCHANGED <<owner, notified, agentVars>>
  BY DEF call, register
<1>2. k # "none"
  BY CallbackAssumption DEF Processes, Wakeups
<1>3. TypeOK'
  BY <1>1 DEF Inv, TypeOK, agentVars
<1>4. table' = registry'
  BY <1>1 DEF Inv
<1>5. /\ kind'[c] = k /\ answers'[c] = 0 /\ told'[c] = {} /\ c \notin ended'
      /\ \A d \in Calls \ {c} :
           /\ kind'[d] = kind[d] /\ answers'[d] = answers[d] /\ told'[d] = told[d]
           /\ d \in ended' <=> d \in ended
  BY <1>1 DEF Inv, TypeOK
<1>6. c \notin bgSessionOrigin /\ (kind[c] = "none" => c \notin ended)
  BY <1>1 DEF Inv, FreshCalls, OriginsUnanswered, Processes
<1>7. FreshCalls'
  BY <1>1, <1>2, <1>5 DEF Inv, FreshCalls
<1>8. OriginsUnanswered'
  BY <1>1, <1>5, <1>6 DEF Inv, OriginsUnanswered, TypeOK
<1>9. AnsweredOnce' /\ NotResurrected'
  BY <1>1, <1>5 DEF Inv, AnsweredOnce, NotResurrected, TypeOK
<1>10. RecurringKept'
  BY <1>1, <1>5 DEF Inv, RecurringKept, Of
<1> QED BY <1>3, <1>4, <1>7, <1>8, <1>9, <1>10 DEF Inv

\* Calls C leave the registry and its table, and each is counted as answered,
\* as reported or as ended; none of them is a recurring wakeup that is not
\* counted as ended.
LEMMA ResolveInv ==
  ASSUME Inv, TypeOK', NEW C \in SUBSET Calls,
         registry' = registry \ C, table' = table \ C, kind' = kind,
         bgSessionOrigin' \subseteq bgSessionOrigin,
         \A c \in Calls \ C : answers'[c] = answers[c] /\ told'[c] = told[c],
         \A c \in bgSessionOrigin' : answers'[c] = answers[c],
         ended \subseteq ended', ended' \subseteq ended \union C,
         \A c \in C : kind[c] # "none" /\ answers'[c] <= 1,
         \A c \in C : kind[c] = "recurring" => c \in ended'
  PROVE  Inv'
<1>1. table' = registry'
  BY DEF Inv
<1>2. FreshCalls'
  BY DEF Inv, FreshCalls
<1>3. OriginsUnanswered'
  BY DEF Inv, OriginsUnanswered
<1>4. AnsweredOnce'
  BY DEF Inv, AnsweredOnce
<1>5. NotResurrected'
  <2>1. registry \subseteq Calls
    BY DEF Inv, TypeOK
  <2> QED BY <2>1 DEF Inv, NotResurrected
<1>6. RecurringKept'
  BY DEF Inv, RecurringKept, Of
<1> QED BY <1>1, <1>2, <1>3, <1>4, <1>5, <1>6 DEF Inv

\* The same for one call.
LEMMA ResolveOneInv ==
  ASSUME Inv, TypeOK', NEW c \in Calls,
         registry' = registry \ {c}, table' = table \ {c}, kind' = kind,
         bgSessionOrigin' \subseteq bgSessionOrigin,
         \A d \in Calls \ {c} : answers'[d] = answers[d] /\ told'[d] = told[d],
         \A d \in bgSessionOrigin' : answers'[d] = answers[d],
         ended \subseteq ended', ended' \subseteq ended \union {c},
         kind[c] # "none", answers'[c] <= 1,
         kind[c] = "recurring" => c \in ended'
  PROVE  Inv'
<1> DEFINE C == {c}
<1>1. /\ C \in SUBSET Calls /\ registry' = registry \ C /\ table' = table \ C
      /\ \A d \in Calls \ C : answers'[d] = answers[d] /\ told'[d] = told[d]
      /\ ended' \subseteq ended \union C
      /\ \A d \in C : kind[d] # "none" /\ answers'[d] <= 1
      /\ \A d \in C : kind[d] = "recurring" => d \in ended'
  OBVIOUS
<1> HIDE DEF C
<1> QED BY <1>1, ResolveInv

\* Steps that change neither calls, nor the registry, nor the histories.
LEMMA QuietInv ==
  ASSUME Inv, TypeOK', UNCHANGED <<kind, registry, table, answers, told, ended>>,
         bgSessionOrigin' \subseteq bgSessionOrigin
  PROVE  Inv'
<1>1. /\ registry' = registry \ {} /\ table' = table \ {} /\ ended' \subseteq ended \union {}
      /\ ended \subseteq ended' /\ {} \in SUBSET Calls
  OBVIOUS
<1>2. /\ \A c \in Calls \ {} : answers'[c] = answers[c] /\ told'[c] = told[c]
      /\ \A c \in bgSessionOrigin' : answers'[c] = answers[c]
  OBVIOUS
<1> QED BY <1>1, <1>2, ResolveInv

\* A cancelled call is ended.
LEMMA CancelInv ==
  ASSUME Inv, NEW c \in Calls, cancel_wakeup(c)
  PROVE  Inv'
<1>1. /\ c \in registry /\ registry' = registry \ {c} /\ table' = table \ {c}
      /\ ended' = ended \union {c}
      /\ UNCHANGED <<callVars, procVars, late, agentVars, answers, told>>
  BY DEF cancel_wakeup, resolve
<1>2. TypeOK'
  BY <1>1 DEF Inv, TypeOK, callVars, procVars, agentVars
<1>3. kind[c] # "none" /\ answers[c] = 0
  BY <1>1 DEF Inv, FreshCalls, NotResurrected
<1>4. kind' = kind /\ bgSessionOrigin' = bgSessionOrigin /\ answers' = answers /\ told' = told
  BY <1>1 DEF callVars, procVars
<1>5. answers'[c] <= 1
  BY <1>3, <1>4
<1> QED BY <1>1, <1>2, <1>3, <1>4, <1>5, ResolveOneInv

\* An answer that was announced: the origin is given up with it.
LEMMA CompletionInv ==
  ASSUME Inv, NEW c \in Calls,
         notifyCompletion(c, "running", "exited") \/ notifyCompletion(c, "exited", "closed")
  PROVE  Inv'
<1>1. PICK to \in {"exited", "closed"} :
        /\ process' = [process EXCEPT ![c] = to]
        /\ onBackgroundCompletion(c)
        /\ UNCHANGED <<callVars, notified, late, agentVars, told, ended>>
  BY DEF notifyCompletion
<1>2. kind' = kind /\ told' = told /\ ended' = ended
  BY <1>1 DEF callVars
<1>3. CASE c \in bgSessionOrigin /\ owner[c] \in subscribed
  <2>1. /\ bgSessionOrigin' = bgSessionOrigin \ {c}
        /\ registry' = registry \ {c} /\ table' = table \ {c}
        /\ answers' = [answers EXCEPT ![c] = @ + 1]
    BY <1>1, <1>3 DEF onBackgroundCompletion, resolve
  <2>2. kind[c] \in Processes /\ answers[c] = 0 /\ answers \in [Calls -> Nat]
    BY <1>3 DEF Inv, OriginsUnanswered, TypeOK
  <2>3. /\ answers' \in [Calls -> Nat] /\ answers'[c] = 1
        /\ \A d \in Calls \ {c} : answers'[d] = answers[d]
    BY <2>1, <2>2
  <2>4. TypeOK'
    BY <1>1, <2>1, <2>3 DEF Inv, TypeOK, callVars, agentVars
  <2>5. kind[c] # "none" /\ kind[c] # "recurring"
    BY <2>2 DEF Processes
  <2>6. \A d \in bgSessionOrigin' : answers'[d] = answers[d]
    BY <2>1, <2>3 DEF Inv, TypeOK
  <2>7. /\ \A d \in Calls \ {c} : answers'[d] = answers[d] /\ told'[d] = told[d]
        /\ answers'[c] <= 1 /\ bgSessionOrigin' \subseteq bgSessionOrigin
    BY <1>2, <2>1, <2>3
  <2> QED BY <1>2, <2>1, <2>4, <2>5, <2>6, <2>7, ResolveOneInv
<1>4. CASE ~(c \in bgSessionOrigin /\ owner[c] \in subscribed)
  <2>1. UNCHANGED <<bgSessionOrigin, registry, table, answers>>
    BY <1>1, <1>4 DEF onBackgroundCompletion
  <2>2. TypeOK'
    BY <1>1, <2>1 DEF Inv, TypeOK, callVars, agentVars
  <2> QED BY <1>2, <2>1, <2>2, QuietInv
<1> QED BY <1>3, <1>4

\* A peer's reply answers a call of that kind.
LEMMA ReplyInv ==
  ASSUME Inv, NEW c \in Calls, a2aReply(c)
  PROVE  Inv'
<1>1. /\ c \in registry /\ kind[c] = "reply"
      /\ registry' = registry \ {c} /\ table' = table \ {c}
      /\ answers' = [answers EXCEPT ![c] = @ + 1]
      /\ UNCHANGED <<callVars, procVars, late, agentVars, told, ended>>
  BY DEF a2aReply, resolve
<1>2. answers[c] = 0 /\ answers \in [Calls -> Nat]
  BY <1>1 DEF Inv, NotResurrected, TypeOK
<1>3. /\ answers' \in [Calls -> Nat] /\ answers'[c] = 1
      /\ \A d \in Calls \ {c} : answers'[d] = answers[d]
  BY <1>1, <1>2
<1>4. TypeOK'
  BY <1>1, <1>3 DEF Inv, TypeOK, callVars, procVars, agentVars
<1>5. kind' = kind /\ bgSessionOrigin' = bgSessionOrigin /\ told' = told /\ ended' = ended
  BY <1>1 DEF callVars, procVars
<1>6. \A d \in bgSessionOrigin' : d \in Calls \ {c}
  BY <1>1, <1>5 DEF Inv, OriginsUnanswered, TypeOK, Processes
<1>7. /\ \A d \in Calls \ {c} : answers'[d] = answers[d] /\ told'[d] = told[d]
      /\ \A d \in bgSessionOrigin' : answers'[d] = answers[d]
      /\ answers'[c] <= 1 /\ kind[c] # "none" /\ kind[c] # "recurring"
  BY <1>1, <1>3, <1>5, <1>6
<1> QED BY <1>1, <1>4, <1>5, <1>7, ResolveOneInv

\* The sweep answers the due wakeups and keeps the recurring ones.
LEMMA SweepInv ==
  ASSUME Inv, NEW a \in Agents, sweepDueWakeups(a)
  PROVE  Inv'
<1> DEFINE C == due(a) \ (due(a) \intersect Of({"recurring"}))
<1>1. /\ registry' = registry \ C /\ table' = table \ C /\ late' \subseteq late
      /\ answers' = [c \in Calls |-> IF c \in C THEN answers[c] + 1 ELSE answers[c]]
      /\ UNCHANGED <<callVars, procVars, agentVars, told, ended>>
  BY DEF sweepDueWakeups, resolve
<1>2. \A c \in C : /\ c \in registry /\ c \in Calls
                   /\ kind[c] \in Wakeups /\ kind[c] # "recurring"
  BY DEF due, Of
<1> HIDE DEF C
<1>3. answers \in [Calls -> Nat] /\ \A c \in C : answers[c] = 0
  BY <1>2 DEF Inv, NotResurrected, TypeOK
<1>4. /\ answers' \in [Calls -> Nat] /\ \A c \in C : answers'[c] = 1
      /\ \A d \in Calls \ C : answers'[d] = answers[d]
  BY <1>1, <1>2, <1>3
<1>5. TypeOK'
  BY <1>1, <1>4 DEF Inv, TypeOK, callVars, procVars, agentVars
<1>6. kind' = kind /\ bgSessionOrigin' = bgSessionOrigin /\ told' = told /\ ended' = ended
  BY <1>1 DEF callVars, procVars
<1>7. \A d \in bgSessionOrigin' : d \in Calls \ C
  BY <1>2, <1>6 DEF Inv, OriginsUnanswered, TypeOK, Processes, Wakeups
<1>8. \A c \in C : kind[c] # "none" /\ answers'[c] <= 1
  BY <1>2, <1>4 DEF Wakeups
<1>9. C \in SUBSET Calls
  BY <1>2
<1> QED BY <1>1, <1>2, <1>4, <1>5, <1>6, <1>7, <1>8, <1>9, ResolveInv

\* A patrol reports the calls that timed out, which are never wakeups.
LEMMA HeartbeatInv ==
  ASSUME Inv, NEW a \in Agents, handleHeartbeat(a)
  PROVE  Inv'
<1> DEFINE C == getTimedOut
<1>1. /\ registry' = registry \ C /\ table' = table \ C
      /\ told' = [c \in Calls |-> IF c \in C THEN told[c] \union {a} ELSE told[c]]
      /\ beats' \subseteq beats
      /\ notified' = notified \union {c \in Calls : process[c] \in {"exited", "closed"}}
      /\ UNCHANGED <<callVars, process, bgSessionOrigin, late, running, subscribed, answers, ended>>
  BY DEF handleHeartbeat, expireTimedOut, resolve
<1>2. \A c \in C : /\ c \in registry /\ c \in Calls /\ kind[c] # "recurring"
                   /\ kind[c] # "none" /\ answers[c] = 0
  BY DEF getTimedOut, Of, Wakeups, Inv, TypeOK, FreshCalls, NotResurrected
<1> HIDE DEF C
<1>3. told' \in [Calls -> SUBSET Agents] /\ \A d \in Calls \ C : told'[d] = told[d]
  BY <1>1 DEF Inv, TypeOK
<1>4. TypeOK'
  BY <1>1, <1>3 DEF Inv, TypeOK, callVars
<1>5. kind' = kind /\ bgSessionOrigin' = bgSessionOrigin /\ answers' = answers /\ ended' = ended
  BY <1>1 DEF callVars
<1>6. C \in SUBSET Calls /\ \A c \in C : answers'[c] <= 1
  BY <1>2, <1>5
<1> QED BY <1>1, <1>2, <1>3, <1>4, <1>5, <1>6, ResolveInv

\* A killed process: the rows are restored, the processes are out of reach.
LEMMA CrashInv ==
  ASSUME Inv, crash
  PROVE  Inv'
<1>1. /\ registry' = table /\ table' = table /\ bgSessionOrigin' = {}
      /\ notified' = {} /\ process' = [c \in Calls |-> "none"] /\ subscribed' = Agents
      /\ UNCHANGED <<callVars, late, running, beats, told, answers, ended>>
  BY DEF crash, restart
<1>2. TypeOK'
  BY <1>1 DEF Inv, TypeOK, callVars
<1>3. UNCHANGED <<kind, registry, table, answers, told, ended>>
  BY <1>1 DEF callVars, Inv
<1> QED BY <1>1, <1>2, <1>3, QuietInv

\* A kill between the DELETE of the row and the INSERT of the answer.
LEMMA CrashWhileAnsweringInv ==
  ASSUME Inv, NEW c \in Calls, crashWhileAnswering(c)
  PROVE  Inv'
<1>1. /\ c \in registry /\ registry' = registry \ {c} /\ table' = table \ {c}
      /\ bgSessionOrigin' = {} /\ notified' = {} /\ ended' = ended \union {c}
      /\ process' = [d \in Calls |-> "none"] /\ subscribed' = Agents
      /\ answers' \in {answers, [answers EXCEPT ![c] = @ + 1]}
      /\ UNCHANGED <<callVars, late, running, beats, told>>
  BY DEF crashWhileAnswering, restart, Inv
<1>2. answers[c] = 0 /\ kind[c] # "none" /\ answers \in [Calls -> Nat]
  BY <1>1 DEF Inv, NotResurrected, FreshCalls, TypeOK
<1>3. /\ answers' \in [Calls -> Nat] /\ answers'[c] <= 1
      /\ \A d \in Calls \ {c} : answers'[d] = answers[d]
  BY <1>1, <1>2
<1>4. TypeOK'
  BY <1>1, <1>3 DEF Inv, TypeOK, callVars
<1>5. kind' = kind /\ told' = told
  BY <1>1 DEF callVars
<1> QED BY <1>1, <1>2, <1>3, <1>4, <1>5, ResolveOneInv

\* Time, heartbeats in the mailbox, stops and starts of agents.
LEMMA AgentInv ==
  ASSUME Inv,
         \/ \E c \in Calls : time(c)
         \/ \E a \in Agents : heartbeatTrigger(a) \/ recordHeartbeatSkip(a) \/ stop(a) \/ start(a)
  PROVE  Inv'
<1>1. UNCHANGED <<callVars, registry, table, procVars, answers, told, ended>>
  BY DEF time, heartbeatTrigger, recordHeartbeatSkip, stop, start
<1>2. /\ late' \subseteq Calls /\ running' \subseteq Agents
      /\ subscribed' \subseteq Agents /\ beats' \subseteq Agents
  BY DEF time, heartbeatTrigger, recordHeartbeatSkip, stop, start, agentVars, Inv, TypeOK
<1>3. TypeOK'
  BY <1>1, <1>2 DEF Inv, TypeOK, callVars, procVars
<1> QED BY <1>1, <1>3, QuietInv DEF callVars, procVars

\* The invariant is inductive: every action of Next keeps it.
LEMMA InvInductive == Inv /\ [Next]_vars => Inv'
<1> SUFFICES ASSUME Inv, [Next]_vars PROVE Inv'
  OBVIOUS
<1>1. CASE UNCHANGED vars
  <2>1. UNCHANGED <<callVars, registry, table, procVars, late, agentVars, answers, told, ended>>
    BY <1>1 DEF vars
  <2>2. TypeOK'
    BY <2>1 DEF Inv, TypeOK, callVars, procVars, agentVars
  <2> QED BY <2>1, <2>2, QuietInv DEF callVars, procVars
<1>2. ASSUME NEW c \in Calls, NEW k \in Kinds, call(c, k) PROVE Inv'
  BY <1>2, CallInv
<1>3. ASSUME NEW c \in Calls, cancel_wakeup(c) PROVE Inv'
  BY <1>3, CancelInv
<1>4. ASSUME NEW c \in Calls, a2aReply(c) PROVE Inv'
  BY <1>4, ReplyInv
<1>5. ASSUME NEW c \in Calls,
             notifyCompletion(c, "running", "exited") \/ notifyCompletion(c, "exited", "closed")
      PROVE  Inv'
  BY <1>5, CompletionInv
<1>6. ASSUME NEW c \in Calls, crashWhileAnswering(c) PROVE Inv'
  BY <1>6, CrashWhileAnsweringInv
<1>7. ASSUME NEW a \in Agents, sweepDueWakeups(a) PROVE Inv'
  BY <1>7, SweepInv
<1>8. ASSUME NEW a \in Agents, handleHeartbeat(a) PROVE Inv'
  BY <1>8, HeartbeatInv
<1>9. CASE crash
  BY <1>9, CrashInv
<1>10. CASE \/ \E c \in Calls : time(c)
            \/ \E a \in Agents :
                 heartbeatTrigger(a) \/ recordHeartbeatSkip(a) \/ stop(a) \/ start(a)
  BY <1>10, AgentInv
<1> QED BY <1>1, <1>2, <1>3, <1>4, <1>5, <1>6, <1>7, <1>8, <1>9, <1>10 DEF Next

\* Every reachable state satisfies the invariant.
THEOREM CallbackInvariant == Spec => []Inv
BY InitInv, InvInductive, PTL DEF Spec

\* A call is answered at most once, whatever "exit", "close", the auto-kill,
\* replies, sweeps and restarts make of it.
THEOREM CallsAnsweredOnce == Spec => []AnsweredOnce
<1>1. Inv => AnsweredOnce
  BY DEF Inv
<1> QED BY <1>1, CallbackInvariant, PTL

\* What was answered, reported or cancelled is not waited for again, restarts
\* included.
THEOREM CallsStayResolved == Spec => []NotResurrected
<1>1. Inv => NotResurrected
  BY DEF Inv
<1> QED BY <1>1, CallbackInvariant, PTL

\* A recurring wakeup stays armed until it is cancelled or torn by a crash.
THEOREM RecurringWakeupsKept == Spec => []RecurringKept
<1>1. Inv => RecurringKept
  BY DEF Inv
<1> QED BY <1>1, CallbackInvariant, PTL
=============================================================================
