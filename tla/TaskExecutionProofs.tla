------------------------ MODULE TaskExecutionProofs ------------------------
(***************************************************************************)
(* Proof of the safety of a task's executions, for any number of epochs,   *)
(* rounds, retries and requests: one writer, one unsettled epoch, no work  *)
(* lost in silence, and no execution that was not told to stop.            *)
(***************************************************************************)
EXTENDS TaskExecution, FiniteSetTheorems, TLAPS

\* The phases of an epoch that the mailbox or the agent still holds.
Active == {"mailbox", "running", "submitting"}

\* A registered epoch that nobody told to stop.
Heard(e) == ~exec[e].settled /\ exec[e].phase \in Active /\ exec[e].reason = "none"

\* The agent runs one execution of the task.
OneRunning == \A e, f \in InFlight : e = f

\* Such an epoch holds the token of the task, and the task is in progress:
\* the next change of status tells it to stop.
Listening == \A e \in Execs : Heard(e) => token = e /\ status = "in_progress"

\* Between its error and the end of its promise an epoch can only be stopped
\* by a change of status or by a fresh start.
RejectingOK ==
  \A e \in Execs : exec[e].phase = "rejecting" => exec[e].reason \in {"none", "lifecycle", "superseded"}

\* A dispatch waits only for a live epoch.
DeferredOK == deferred # {} => live # NoExec

\* The live epoch, if there is one, will not carry the task any further ...
Ended ==
  \/ live = NoExec
  \/ exec[live].phase = "resolving"
  \/ exec[live].reason \in {"lifecycle", "superseded"}

\* ... and then something else will, or the code knows why nothing does.
Covered ==
  \/ deferred # {}
  \/ \E c \in Calls : calls[c] > 0
  \/ rest # "none"
CoveredOK == status = "in_progress" /\ Ended => Covered

\* The inductive invariant.
Inv ==
  /\ TypeOK
  /\ OneUnsettled
  /\ OneRunning
  /\ Listening
  /\ RejectingOK
  /\ DeferredOK
  /\ CoveredOK

\* The types of what has nothing to do with epochs and dispatches.
CountersOK ==
  /\ round \in 1..MaxRound
  /\ submitted \in BOOLEAN /\ strikes \in 0..(MaxRetries - 1)
  /\ revising \in 0..MaxCopies /\ gate \in 0..1
  /\ ghosts \in 0..MaxGhosts
  /\ rest \in {"none", "user", "submitted", "duplicate"}

\* The epochs that a step leaves before it changes the status: it may move
\* epochs on and tell them to stop, but settles none and starts none.
Moved(E) ==
  /\ E \in [Execs -> Epoch]
  /\ \A e \in Execs :
       /\ E[e].settled = exec[e].settled
       /\ E[e].phase \in Active => exec[e].phase \in Active
       /\ E[e].phase \in {"running", "submitting"} => e \in InFlight
       /\ E[e].reason = "none" => exec[e].reason = "none"
       /\ E[e].phase = "rejecting" => E[e].reason \in {"none", "lifecycle", "superseded"}

\* The callbacks that a step leaves: none is taken away.
MoreCalls(C) == C \in [Calls -> 0..MaxCopies] /\ \A c \in Calls : C[c] >= calls[c]

-----------------------------------------------------------------------------
(* What the operators of the model give. *)

\* The dispatches are of the right kind, and a retry is one of them.
LEMMA CallTypes ==
  /\ \A c \in Calls : c.fresh \in BOOLEAN /\ c.attempt \in 0..MaxRetries
  /\ Fresh \in Calls /\ Attempt(0) \in Calls
  /\ \A n \in 0..MaxRetries : Again(n) \in Calls
<1>1. \A c \in Calls : c.fresh \in BOOLEAN /\ c.attempt \in 0..MaxRetries
  <2>1. Fresh.fresh \in BOOLEAN /\ Fresh.attempt \in 0..MaxRetries
    BY ExecAssumption DEF Fresh
  <2>2. \A n \in 0..MaxRetries : Attempt(n).fresh \in BOOLEAN /\ Attempt(n).attempt \in 0..MaxRetries
    BY DEF Attempt
  <2> QED BY <2>1, <2>2 DEF Calls
<1>2. \A n \in 0..MaxRetries : Attempt(n) \in Calls
  BY DEF Calls
<1>3. Fresh \in Calls
  BY DEF Calls
<1>4. \A n \in 0..MaxRetries : (IF n < MaxRetries THEN n + 1 ELSE n) \in 0..MaxRetries
  BY ExecAssumption
<1>5. 0 \in 0..MaxRetries
  BY ExecAssumption
<1> QED BY <1>1, <1>2, <1>3, <1>4, <1>5 DEF Again

\* A callback that is added waits.
LEMMA AddCall ==
  ASSUME NEW C \in [Calls -> 0..MaxCopies], NEW c \in Calls
  PROVE  /\ Add(C, c) \in [Calls -> 0..MaxCopies]
         /\ \A d \in Calls : Add(C, c)[d] >= C[d]
         /\ Add(C, c)[c] > 0
BY ExecAssumption DEF Add

\* The fields of an epoch.
LEMMA EpochFields ==
  \A x \in Epoch : /\ x.phase \in Phases /\ x.reason \in Reasons \union {"none"}
                   /\ x.settled \in BOOLEAN /\ x.fresh \in BOOLEAN
                   /\ x.attempt \in 0..MaxRetries /\ x.round \in 1..MaxRound
BY DEF Epoch

\* A slot that is free.
LEMMA OverIsEpoch == Over \in Epoch
BY ExecAssumption DEF Over, Epoch, Phases

\* The epochs D are the epochs E after "t" was told to stop for the reason
\* "why": it keeps its first reason.
Cancelled(E, t, why, D) ==
  /\ D \in [Execs -> Epoch]
  /\ \A e \in Execs : D[e].phase = E[e].phase /\ D[e].settled = E[e].settled
  /\ \A e \in Execs :
       D[e].reason = E[e].reason \/ (D[e].reason = why /\ E[e].reason = "none" /\ e = t)
  /\ \A e \in Execs : e = t /\ E[e].phase # "over" => D[e].reason # "none"

\* That is what cancelExecutionToken does.
LEMMA CancelToken ==
  ASSUME NEW E \in [Execs -> Epoch], NEW t \in Execs \union {NoExec}, NEW why \in Reasons,
         NEW D, D = cancelExecutionToken(E, t, why)
  PROVE  Cancelled(E, t, why, D)
<1> SUFFICES
      /\ D \in [Execs -> Epoch]
      /\ \A e \in Execs : D[e].phase = E[e].phase /\ D[e].settled = E[e].settled
      /\ \A e \in Execs :
           D[e].reason = E[e].reason \/ (D[e].reason = why /\ E[e].reason = "none" /\ e = t)
      /\ \A e \in Execs : e = t /\ E[e].phase # "over" => D[e].reason # "none"
  BY DEF Cancelled
<1>1. CASE ~(t \in Execs /\ E[t].phase # "over" /\ E[t].reason = "none")
  <2>1. D = E
    BY <1>1 DEF cancelExecutionToken
  <2> QED BY <1>1, <2>1
<1>2. CASE t \in Execs /\ E[t].phase # "over" /\ E[t].reason = "none"
  <2>1. D = [E EXCEPT ![t] = [E[t] EXCEPT !.reason = why]]
    BY <1>2 DEF cancelExecutionToken
  <2> DEFINE y == [E[t] EXCEPT !.reason = why]
  <2>2. E[t] \in Epoch /\ why # "none"
    BY <1>2 DEF Reasons
  <2>3. y \in Epoch /\ y.reason = why /\ y.phase = E[t].phase /\ y.settled = E[t].settled
    BY <2>2 DEF Epoch
  <2> HIDE DEF y
  <2>4. D = [E EXCEPT ![t] = y]
    BY <2>1 DEF y
  <2>5. D \in [Execs -> Epoch] /\ \A e \in Execs : D[e] = IF e = t THEN y ELSE E[e]
    BY <1>2, <2>3, <2>4
  <2> QED BY <1>2, <2>2, <2>3, <2>5
<1> QED BY <1>1, <1>2

\* An epoch that moves to another phase.
LEMMA PhaseMoves ==
  ASSUME TypeOK, NEW e \in Execs, NEW p \in Phases
  PROVE  /\ Phase(e, p) \in [Execs -> Epoch]
         /\ \A f \in Execs : /\ Phase(e, p)[f].phase = IF f = e THEN p ELSE exec[f].phase
                             /\ Phase(e, p)[f].reason = exec[f].reason
                             /\ Phase(e, p)[f].settled = exec[f].settled
<1> DEFINE y == [exec[e] EXCEPT !.phase = p]
<1>1. exec \in [Execs -> Epoch] /\ exec[e] \in Epoch
  BY DEF TypeOK
<1>2. y \in Epoch /\ y.phase = p /\ y.reason = exec[e].reason /\ y.settled = exec[e].settled
  BY <1>1 DEF Epoch
<1> HIDE DEF y
<1>3. Phase(e, p) = [exec EXCEPT ![e] = y]
  BY DEF Phase, y
<1>4. Phase(e, p) \in [Execs -> Epoch] /\ \A f \in Execs : Phase(e, p)[f] = IF f = e THEN y ELSE exec[f]
  BY <1>1, <1>2, <1>3
<1> QED BY <1>1, <1>2, <1>4

-----------------------------------------------------------------------------
(* The shapes of the steps. *)

\* A legal change of status tells the execution to stop, or calls for one.
LEMMA ChangeStatusInv ==
  ASSUME Inv, NEW to \in Status, NEW E, NEW C, NEW skip \in BOOLEAN, Moved(E), MoreCalls(C),
         changeStatus(to, E, C, skip), UNCHANGED live, CountersOK',
         status = "in_progress" => to # "in_progress",
         to = "in_progress" => ~skip \/ \E c \in Calls : C[c] > 0
  PROVE  Inv'
<1>0. TypeOK /\ status' = to /\ E \in [Execs -> Epoch]
  BY DEF Inv, changeStatus, Moved
<1>1. exec' = IF status = "in_progress" THEN cancelExecutionToken(E, token, "lifecycle") ELSE E
  BY DEF changeStatus
<1>2. /\ exec' \in [Execs -> Epoch]
      /\ \A e \in Execs : exec'[e].phase = E[e].phase /\ exec'[e].settled = E[e].settled
      /\ \A e \in Execs :
           \/ exec'[e].reason = E[e].reason
           \/ exec'[e].reason = "lifecycle" /\ E[e].reason = "none" /\ e = token
      /\ \A e \in Execs :
           status = "in_progress" /\ e = token /\ E[e].phase # "over" => exec'[e].reason # "none"
  <2>1. CASE status = "in_progress"
    <3>1. token \in Execs \union {NoExec} /\ "lifecycle" \in Reasons
      BY <1>0 DEF TypeOK, Reasons
    <3>2. exec' = cancelExecutionToken(E, token, "lifecycle")
      BY <1>1, <2>1
    <3>3. E \in [Execs -> Epoch]
      BY <1>0
    <3>4. Cancelled(E, token, "lifecycle", exec')
      BY <3>1, <3>2, <3>3, CancelToken
    <3> QED BY <2>1, <3>4 DEF Cancelled
  <2>2. CASE status # "in_progress"
    BY <1>0, <1>1, <2>2
  <2> QED BY <2>1, <2>2
<1>3. /\ \A e \in Execs : E[e].settled = exec[e].settled
      /\ \A e \in Execs : E[e].phase \in Active => exec[e].phase \in Active
      /\ \A e \in Execs : E[e].phase \in {"running", "submitting"} => e \in InFlight
      /\ \A e \in Execs : E[e].reason = "none" => exec[e].reason = "none"
      /\ \A e \in Execs : E[e].phase = "rejecting" => E[e].reason \in {"none", "lifecycle", "superseded"}
  BY DEF Moved
<1>4. /\ calls' \in [Calls -> 0..MaxCopies]
      /\ to = "in_progress" => \E c \in Calls : calls'[c] > 0
  <2>1. C \in [Calls -> 0..MaxCopies]
    BY DEF MoreCalls
  <2>2. CASE to = "in_progress" /\ ~skip
    BY <2>1, <2>2, AddCall, CallTypes DEF changeStatus
  <2>3. CASE ~(to = "in_progress" /\ ~skip)
    BY <2>1, <2>3 DEF changeStatus
  <2> QED BY <2>2, <2>3
<1>5. TypeOK'
  <2>1. /\ token' \in Execs \union {NoExec} /\ deferred' \in {{}} \union {{c} : c \in Calls}
        /\ same' \in 0..(MaxSame + 1)
    BY <1>0, ExecAssumption DEF changeStatus, TypeOK
  <2> QED BY <1>0, <1>1, <1>2, <1>4, <2>1 DEF TypeOK, CountersOK
<1>6. OneUnsettled'
  BY <1>1, <1>2, <1>3 DEF Inv, OneUnsettled
<1>7. OneRunning'
  BY <1>1, <1>2, <1>3 DEF Inv, OneRunning, InFlight
<1>8. Listening'
  <2> SUFFICES ASSUME NEW e \in Execs, ~exec'[e].settled, exec'[e].phase \in Active, exec'[e].reason = "none"
               PROVE  FALSE
    BY <1>1 DEF Listening, Heard
  <2>1. Heard(e)
    <3>1. E[e].reason = "none"
      BY <1>2
    <3> QED BY <1>2, <1>3, <3>1 DEF Heard
  <2>2. token = e /\ status = "in_progress"
    BY <2>1 DEF Inv, Listening
  <2>3. E[e].phase # "over"
    BY <1>2 DEF Active
  <2> QED BY <1>2, <2>2, <2>3
<1>9. RejectingOK'
  BY <1>1, <1>2, <1>3 DEF RejectingOK
<1>10. DeferredOK'
  BY DEF Inv, DeferredOK, changeStatus
<1>11. CoveredOK'
  BY <1>0, <1>4 DEF CoveredOK, Covered
<1> QED BY <1>5, <1>6, <1>7, <1>8, <1>9, <1>10, <1>11 DEF Inv

\* A step that leaves the status alone, and covers the task if it ends the
\* live epoch.
LEMMA KeepInv ==
  ASSUME Inv, Moved(exec'), MoreCalls(calls'), UNCHANGED <<status, live, token, deferred>>,
         same' \in 0..(MaxSame + 1), CountersOK',
         status = "in_progress" /\ Ended' => Covered'
  PROVE  Inv'
<1>1. /\ exec' \in [Execs -> Epoch]
      /\ \A e \in Execs : exec'[e].settled = exec[e].settled
      /\ \A e \in Execs : exec'[e].phase \in Active => exec[e].phase \in Active
      /\ \A e \in Execs : exec'[e].phase \in {"running", "submitting"} => e \in InFlight
      /\ \A e \in Execs : exec'[e].reason = "none" => exec[e].reason = "none"
      /\ \A e \in Execs :
           exec'[e].phase = "rejecting" => exec'[e].reason \in {"none", "lifecycle", "superseded"}
  BY DEF Moved
<1>2. TypeOK'
  BY <1>1 DEF Inv, TypeOK, CountersOK, MoreCalls
<1>3. OneUnsettled'
  BY <1>1 DEF Inv, OneUnsettled
<1>4. OneRunning'
  BY <1>1 DEF Inv, OneRunning, InFlight
<1>5. Listening'
  <2> SUFFICES ASSUME NEW e \in Execs, Heard(e)' PROVE token = e /\ status = "in_progress"
    BY DEF Listening
  <2>1. Heard(e)
    BY <1>1 DEF Heard
  <2> QED BY <2>1 DEF Inv, Listening
<1>6. RejectingOK'
  BY <1>1 DEF RejectingOK
<1>7. DeferredOK' /\ CoveredOK'
  BY DEF Inv, DeferredOK, CoveredOK
<1> QED BY <1>2, <1>3, <1>4, <1>5, <1>6, <1>7 DEF Inv

\* What covered the task still covers it.
LEMMA StaysCovered ==
  ASSUME Covered, MoreCalls(calls'), UNCHANGED deferred, rest' = rest \/ rest' # "none", TypeOK
  PROVE  Covered'
<1>1. CASE \E c \in Calls : calls[c] > 0
  <2>1. PICK c \in Calls : calls[c] > 0
    BY <1>1
  <2>2. calls'[c] >= calls[c] /\ calls[c] \in Nat /\ calls'[c] \in Nat
    BY <2>1 DEF MoreCalls, TypeOK
  <2>3. calls'[c] > 0
    BY <2>1, <2>2
  <2> QED BY <2>3 DEF Covered
<1>2. CASE deferred # {} \/ rest # "none"
  BY <1>2 DEF Covered
<1> QED BY <1>1, <1>2 DEF Covered

\* Epochs and callbacks that are left alone.
LEMMA NothingMoves ==
  ASSUME Inv
  PROVE  Moved(exec) /\ MoreCalls(calls)
<1>1. Moved(exec)
  BY DEF Inv, TypeOK, RejectingOK, Moved, InFlight
<1>2. MoreCalls(calls)
  BY DEF Inv, TypeOK, MoreCalls
<1> QED BY <1>1, <1>2

\* One epoch moves on.
LEMMA PhaseIsMove ==
  ASSUME Inv, NEW e \in Execs, NEW p \in Phases,
         p \in Active => exec[e].phase \in Active,
         p \in {"running", "submitting"} => e \in InFlight,
         p = "rejecting" => exec[e].reason \in {"none", "lifecycle", "superseded"}
  PROVE  Moved(Phase(e, p))
<1>1. TypeOK
  BY DEF Inv
<1>2. \A f \in Execs : exec[f].phase = "rejecting" => exec[f].reason \in {"none", "lifecycle", "superseded"}
  BY DEF Inv, RejectingOK
<1>3. \A f \in Execs : exec[f].phase \in {"running", "submitting"} => f \in InFlight
  BY DEF InFlight
<1> HIDE DEF Phase
<1> QED BY <1>1, <1>2, <1>3, PhaseMoves DEF Moved

\* More callbacks.
LEMMA MoreByOne ==
  ASSUME TypeOK, NEW c \in Calls
  PROVE  MoreCalls(Add(calls, c)) /\ Add(calls, c)[c] > 0
BY AddCall DEF TypeOK, MoreCalls

-----------------------------------------------------------------------------
\* A dispatch that passes the gate: the new epoch is the only one unsettled,
\* holds the token and has the task in progress.
LEMMA StartInv ==
  ASSUME Inv, NEW c \in Calls, status = "in_progress", live = NoExec, start(c),
         calls' \in [Calls -> 0..MaxCopies],
         UNCHANGED <<status, round, same, revising, gate>>, ghosts' \in 0..MaxGhosts
  PROVE  Inv'
<1>0. TypeOK /\ token \in Execs \union {NoExec} /\ exec \in [Execs -> Epoch]
  BY DEF Inv, TypeOK
<1> DEFINE E == IF c.fresh THEN exec ELSE cancelExecutionToken(exec, token, "superseded")
<1>1. /\ E = exec \/ E = cancelExecutionToken(exec, token, "superseded")
      /\ registerTaskExecution(c, E)
      /\ submitted' \in BOOLEAN /\ strikes' \in 0..(MaxRetries - 1)
  <2>1. CASE c.fresh
    BY <1>0, <2>1 DEF start, runTaskFresh, TypeOK
  <2>2. CASE ~c.fresh
    <3>1. registerTaskExecution(c, E)
      BY <2>2 DEF start, runTask
    <3>2. submitted' = FALSE /\ strikes' = IF c = Attempt(0) THEN 0 ELSE strikes
      BY <2>2 DEF start, runTask
    <3>3. strikes' = 0 \/ strikes' = strikes
      BY <3>2
    <3>4. 0 \in 0..(MaxRetries - 1)
      BY ExecAssumption
    <3>5. strikes' \in 0..(MaxRetries - 1)
      BY <1>0, <3>3, <3>4 DEF TypeOK
    <3> QED BY <2>2, <3>1, <3>2, <3>5
  <2> QED BY <2>1, <2>2
<1> HIDE DEF E
<1>2. /\ E \in [Execs -> Epoch]
      /\ \A f \in Execs : E[f].phase = exec[f].phase /\ E[f].settled = exec[f].settled
      /\ \A f \in Execs :
           E[f].reason = exec[f].reason \/ (E[f].reason = "superseded" /\ exec[f].reason = "none")
  <2>1. "superseded" \in Reasons
    BY DEF Reasons
  <2>2. CASE E = exec
    BY <1>0, <2>2
  <2>3. CASE E = cancelExecutionToken(exec, token, "superseded")
    <3>1. token \in Execs \union {NoExec} /\ exec \in [Execs -> Epoch]
      BY <1>0
    <3>2. Cancelled(exec, token, "superseded", E)
      BY <2>1, <2>3, <3>1, CancelToken
    <3> QED BY <3>2 DEF Cancelled
  <2> QED BY <1>1, <2>2, <2>3
<1>3. PICK e \in Execs :
        /\ exec[e] = Over
        /\ exec' = [E EXCEPT ![e] = [phase |-> "mailbox", round |-> round, fresh |-> c.fresh,
                                     attempt |-> c.attempt, reason |-> "none", settled |-> FALSE]]
        /\ live' = e /\ token' = e /\ rest' = "none" /\ UNCHANGED deferred
  BY <1>1 DEF registerTaskExecution
<1> DEFINE new == [phase |-> "mailbox", round |-> round, fresh |-> c.fresh,
                   attempt |-> c.attempt, reason |-> "none", settled |-> FALSE]
<1>4. new.phase = "mailbox" /\ new.reason = "none" /\ new.settled = FALSE /\ new \in Epoch
  BY <1>0, CallTypes DEF Epoch, Phases, TypeOK
<1> HIDE DEF new
<1>5. exec' \in [Execs -> Epoch] /\ \A f \in Execs : exec'[f] = IF f = e THEN new ELSE E[f]
  BY <1>2, <1>3, <1>4 DEF new
<1>6. \A f \in Execs : exec[f].settled
  BY ExecAssumption DEF Inv, OneUnsettled, NoExec
<1>7. exec[e].phase = "over"
  BY <1>3 DEF Over
<1>8. TypeOK'
  BY <1>0, <1>1, <1>3, <1>5 DEF TypeOK
<1>9. OneUnsettled'
  BY <1>2, <1>3, <1>4, <1>5, <1>6 DEF OneUnsettled
<1>10. OneRunning'
  <2>1. \A f \in Execs : f \in InFlight' => f \in InFlight
    BY <1>2, <1>4, <1>5 DEF InFlight
  <2>2. InFlight' \subseteq Execs
    BY DEF InFlight
  <2> QED BY <2>1, <2>2 DEF Inv, OneRunning
<1>11. Listening'
  <2>1. \A f \in Execs : Heard(f)' => f = e
    BY <1>2, <1>5, <1>6 DEF Heard
  <2> QED BY <1>3, <2>1 DEF Listening
<1>12. RejectingOK'
  <2>1. \A f \in Execs : exec[f].phase = "rejecting" => exec[f].reason \in {"none", "lifecycle", "superseded"}
    BY DEF Inv, RejectingOK
  <2> QED BY <1>2, <1>4, <1>5, <2>1 DEF RejectingOK
<1>13. DeferredOK'
  BY <1>3, ExecAssumption DEF DeferredOK, NoExec
<1>14. CoveredOK'
  <2>1. ~Ended'
    BY <1>3, <1>4, <1>5, ExecAssumption DEF Ended, NoExec
  <2> QED BY <2>1 DEF CoveredOK
<1> QED BY <1>8, <1>9, <1>10, <1>11, <1>12, <1>13, <1>14 DEF Inv

\* An epoch settles: what waited for it, or recovers it, is called.
LEMMA SettleInv ==
  ASSUME Inv, NEW e \in Execs, NEW E \in [Execs -> Epoch], NEW d \in {{}} \union {{c} : c \in Calls},
         E[e].settled, \A f \in Execs \ {e} : E[f] = exec[f],
         E[e].phase = "over" \/ (E[e].phase = exec[e].phase /\ E[e].reason = exec[e].reason),
         settle(e, E, d),
         exec[e].settled => d = deferred,
         d = {} => d = deferred /\ exec[e].phase = "resolving",
         token' = token \/ (token = e /\ token' = NoExec),
         UNCHANGED <<status, round, budgetVars, reviewVars, rest>>, ghosts' \in 0..MaxGhosts
  PROVE  Inv'
<1>0. TypeOK /\ exec' = E
  BY DEF Inv, settle
<1>1. \A f \in Execs : f # NoExec
  BY ExecAssumption DEF NoExec
<1>2. \A f \in Execs : ~exec[f].settled <=> live = f
  BY DEF Inv, OneUnsettled
<1>3. /\ live' = IF live = e THEN NoExec ELSE live
      /\ calls' \in [Calls -> 0..MaxCopies]
      /\ deferred' \in {{}} \union {{c} : c \in Calls}
      /\ live # e => UNCHANGED <<calls, deferred>>
      /\ live = e => deferred' = {} /\ (d # {} => \E c \in Calls : calls'[c] > 0) /\ (d = {} => calls' = calls)
  <2>1. CASE exec[e].settled
    BY <1>0, <1>2, <2>1 DEF settle, TypeOK
  <2>2. CASE ~exec[e].settled /\ d = {}
    BY <1>0, <1>2, <2>2 DEF settle, TypeOK
  <2>3. CASE ~exec[e].settled /\ d # {}
    <3>1. (CHOOSE c \in d : TRUE) \in Calls
      <4>1. PICK x \in Calls : d = {x}
        BY <2>3
      <4>2. (CHOOSE c \in d : TRUE) \in d
        BY <4>1
      <4> QED BY <4>1, <4>2
    <3> DEFINE c == CHOOSE c \in d : TRUE
    <3>2. calls' = Add(calls, c) /\ deferred' = {} /\ live' = IF live = e THEN NoExec ELSE live
      BY <2>3 DEF settle
    <3>3. c \in Calls
      BY <3>1
    <3> HIDE DEF c
    <3>4. calls' \in [Calls -> 0..MaxCopies] /\ calls'[c] > 0
      BY <1>0, <3>2, <3>3, AddCall DEF TypeOK
    <3> QED BY <1>2, <2>3, <3>2, <3>3, <3>4
  <2> QED BY <2>1, <2>2, <2>3
<1>4. TypeOK'
  BY <1>0, <1>3 DEF TypeOK, budgetVars, reviewVars
<1>5. OneUnsettled'
  BY <1>0, <1>1, <1>2, <1>3 DEF OneUnsettled
<1>6. OneRunning'
  <2>1. \A f \in Execs : f \in InFlight' => f \in InFlight
    BY <1>0 DEF InFlight
  <2>2. InFlight' \subseteq Execs
    BY DEF InFlight
  <2> QED BY <2>1, <2>2 DEF Inv, OneRunning
<1>7. Listening'
  <2> SUFFICES ASSUME NEW f \in Execs, Heard(f)' PROVE token' = f /\ status = "in_progress"
    BY DEF Listening
  <2>1. f # e /\ Heard(f)
    BY <1>0 DEF Heard
  <2>2. token = f /\ status = "in_progress"
    BY <2>1 DEF Inv, Listening
  <2> QED BY <2>1, <2>2
<1>8. RejectingOK'
  <2>1. \A f \in Execs : exec[f].phase = "rejecting" => exec[f].reason \in {"none", "lifecycle", "superseded"}
    BY DEF Inv, RejectingOK
  <2> QED BY <1>0, <2>1 DEF RejectingOK
<1>9. DeferredOK'
  BY <1>3 DEF Inv, DeferredOK
<1>10. CoveredOK'
  <2> SUFFICES ASSUME status = "in_progress", Ended' PROVE Covered'
    BY DEF CoveredOK
  <2>1. CASE live # e
    <3>1. Ended
      BY <1>0, <1>2, <1>3, <2>1 DEF Ended, Inv, TypeOK
    <3>2. Covered
      BY <3>1 DEF Inv, CoveredOK
    <3> QED BY <1>3, <2>1, <3>2 DEF Covered
  <2>2. CASE live = e /\ d # {}
    BY <1>3, <2>2 DEF Covered
  <2>3. CASE live = e /\ d = {}
    <3>1. Ended /\ deferred = {}
      BY <2>3 DEF Ended
    <3>2. Covered
      BY <3>1 DEF Inv, CoveredOK
    <3> QED BY <1>3, <2>3, <3>1, <3>2 DEF Covered
  <2> QED BY <2>1, <2>2, <2>3
<1> QED BY <1>4, <1>5, <1>6, <1>7, <1>8, <1>9, <1>10 DEF Inv

-----------------------------------------------------------------------------
(* Facts that the steps share. *)

\* No status changes to itself, and a change leads to a status.
LEMMA Transitions == \A s \in Status : transitions[s] \subseteq Status \ {s}
BY DEF transitions, Status

\* The counters that a step leaves alone.
LEMMA CountersKept == TypeOK => CountersOK
BY DEF TypeOK, CountersOK

\* A token that is told to stop moves no epoch.
LEMMA CancelIsMove ==
  ASSUME Inv, NEW t \in Execs \union {NoExec}, NEW why \in Reasons,
         NEW D, D = cancelExecutionToken(exec, t, why),
         \A e \in Execs : e = t /\ exec[e].phase = "rejecting" => why \in {"lifecycle", "superseded"}
  PROVE  Moved(D) /\ Cancelled(exec, t, why, D)
<1>1. exec \in [Execs -> Epoch]
  BY DEF Inv, TypeOK
<1>2. Cancelled(exec, t, why, D)
  BY <1>1, CancelToken
<1>3. \A f \in Execs : exec[f].phase = "rejecting" => exec[f].reason \in {"none", "lifecycle", "superseded"}
  BY DEF Inv, RejectingOK
<1>4. /\ D \in [Execs -> Epoch]
      /\ \A e \in Execs : D[e].phase = exec[e].phase /\ D[e].settled = exec[e].settled
      /\ \A e \in Execs :
           D[e].reason = exec[e].reason \/ (D[e].reason = why /\ exec[e].reason = "none" /\ e = t)
  BY <1>2 DEF Cancelled
<1>5. why # "none"
  BY DEF Reasons
<1>6. \A f \in Execs : exec[f].phase \in {"running", "submitting"} => f \in InFlight
  BY DEF InFlight
<1>7. Moved(D)
  BY <1>3, <1>4, <1>5, <1>6 DEF Moved
<1> QED BY <1>2, <1>7

\* A step that does not end the live epoch leaves the task covered.
LEMMA StillCovered ==
  ASSUME Inv, UNCHANGED <<live, deferred>>, MoreCalls(calls'), rest' = rest \/ rest' # "none",
         status = "in_progress", Ended',
         \A f \in Execs : live = f =>
           /\ exec'[f].phase = "resolving" => exec[f].phase = "resolving"
           /\ exec'[f].reason \in {"lifecycle", "superseded"}
                => exec[f].reason \in {"lifecycle", "superseded"}
  PROVE  Covered'
<1>1. TypeOK
  BY DEF Inv
<1>2. Ended
  BY <1>1 DEF Ended, TypeOK
<1>3. Covered
  BY <1>2 DEF Inv, CoveredOK
<1> QED BY <1>1, <1>3, StaysCovered

\* A change of status that may be refused.
LEMMA TryStatusInv ==
  ASSUME Inv, NEW to \in Status, NEW E, NEW C, Moved(E), MoreCalls(C), tryStatus(to, E, C),
         UNCHANGED live, CountersOK', rest' = rest,
         \A f \in Execs : /\ E[f].phase = "resolving" => exec[f].phase = "resolving"
                          /\ E[f].reason = exec[f].reason
  PROVE  Inv'
<1>1. TypeOK
  BY DEF Inv
<1>2. CASE isValidTaskTransition(to)
  <2>1. changeStatus(to, E, C, FALSE) /\ to # status
    BY <1>1, <1>2, Transitions DEF tryStatus, isValidTaskTransition, TypeOK
  <2> QED BY <2>1, ChangeStatusInv
<1>3. CASE ~isValidTaskTransition(to)
  <2>1. exec' = E /\ calls' = C /\ UNCHANGED <<status, token, deferred, same>>
    BY <1>3 DEF tryStatus, keepStatus
  <2>2. same' \in 0..(MaxSame + 1)
    BY <1>1, <2>1 DEF TypeOK
  <2>3. status = "in_progress" /\ Ended' => Covered'
    BY <2>1, StillCovered
  <2> QED BY <2>1, <2>2, <2>3, KeepInv
<1> QED BY <1>2, <1>3

-----------------------------------------------------------------------------
(* The steps. *)

\* No epoch, no dispatch.
LEMMA InitInv == Init => Inv
<1> SUFFICES ASSUME Init PROVE Inv
  OBVIOUS
<1>1. exec \in [Execs -> Epoch] /\ \A e \in Execs : exec[e].phase = "over" /\ exec[e].settled
  BY OverIsEpoch DEF Init, Over
<1>2. TypeOK
  <2>1. calls \in [Calls -> 0..MaxCopies] /\ round \in 1..MaxRound
    BY ExecAssumption DEF Init
  <2>2. strikes \in 0..(MaxRetries - 1) /\ same \in 0..(MaxSame + 1)
    BY ExecAssumption DEF Init
  <2>3. revising \in 0..MaxCopies /\ gate \in 0..1 /\ ghosts \in 0..MaxGhosts
    BY ExecAssumption DEF Init
  <2>4. /\ status \in Status /\ live = NoExec /\ token = NoExec /\ deferred = {}
        /\ submitted \in BOOLEAN /\ rest = "none"
    BY DEF Init, Status
  <2> QED BY <1>1, <2>1, <2>2, <2>3, <2>4 DEF TypeOK
<1>3. OneUnsettled
  BY <1>1, ExecAssumption DEF Init, OneUnsettled, NoExec
<1>4. OneRunning /\ Listening /\ RejectingOK
  BY <1>1 DEF OneRunning, InFlight, Listening, Heard, RejectingOK
<1>5. DeferredOK /\ CoveredOK
  BY DEF Init, DeferredOK, CoveredOK
<1> QED BY <1>2, <1>3, <1>4, <1>5 DEF Inv

\* A request of a user, a timer or the scheduler.
LEMMA SetStatusInv ==
  ASSUME Inv, NEW to \in Status, isValidTaskTransition(to), changeStatus(to, exec, calls, FALSE),
         UNCHANGED live, CountersOK'
  PROVE  Inv'
<1>1. to # status
  BY Transitions DEF isValidTaskTransition, Inv, TypeOK
<1> QED BY <1>1, NothingMoves, ChangeStatusInv

\* The requests that change the status and nothing else.
LEMMA RequestsInv ==
  ASSUME Inv, \/ approveTask \/ rejectTask \/ pauseTask \/ resumeTask \/ cancelTask
              \/ archiveTask \/ checkTimeouts \/ reopen
  PROVE  Inv'
<1>1. PICK to \in Status, from \in SUBSET Status : SetStatus(from, to)
  BY DEF approveTask, rejectTask, pauseTask, resumeTask, cancelTask, archiveTask, checkTimeouts,
         reopen, Status
<1>2. CountersOK'
  BY <1>1 DEF Inv, TypeOK, CountersOK, SetStatus, reviewVars
<1> QED BY <1>1, <1>2, SetStatusInv DEF SetStatus

\* Another round, by the scheduler.
LEMMA RerunInv == ASSUME Inv, resetTaskForRerun PROVE Inv'
<1>1. "in_progress" \in Status /\ isValidTaskTransition("in_progress")
  BY DEF resetTaskForRerun, isValidTaskTransition, transitions, Status
<1>2. CountersOK'
  BY ExecAssumption DEF resetTaskForRerun, Inv, TypeOK, CountersOK, reviewVars
<1> QED BY <1>1, <1>2, SetStatusInv DEF resetTaskForRerun

\* A fresh start calls for an epoch, and tells the live one to stop.
LEMMA RetryFreshInv == ASSUME Inv, retryTaskFresh PROVE Inv'
<1>0. TypeOK /\ live \in Execs \union {NoExec} /\ "superseded" \in Reasons
  BY DEF Inv, TypeOK, Reasons
<1> DEFINE E == cancelExecutionToken(exec, live, "superseded")
           C == Add(calls, Fresh)
<1>1. Moved(E)
  BY <1>0, CancelIsMove
<1>2. MoreCalls(C) /\ C[Fresh] > 0 /\ Fresh \in Calls
  BY <1>0, CallTypes, MoreByOne
<1>3. CountersOK'
  BY ExecAssumption DEF retryTaskFresh, Inv, TypeOK, CountersOK, reviewVars
<1>4. UNCHANGED live
  BY DEF retryTaskFresh
<1>5. status = "in_progress" => keepStatus(E, C)
  BY DEF retryTaskFresh
<1>6. status # "in_progress" => changeStatus("in_progress", E, C, TRUE)
  BY DEF retryTaskFresh
<1> HIDE DEF E, C
<1>7. CASE status = "in_progress"
  <2>1. exec' = E /\ calls' = C /\ UNCHANGED <<status, token, deferred, same>>
    BY <1>5, <1>7 DEF keepStatus
  <2>2. Covered'
    BY <1>2, <2>1 DEF Covered
  <2>3. same' \in 0..(MaxSame + 1)
    BY <1>0, <2>1 DEF TypeOK
  <2> QED BY <1>1, <1>2, <1>3, <1>4, <2>1, <2>2, <2>3, KeepInv
<1>8. CASE status # "in_progress"
  <2>1. "in_progress" \in Status
    BY DEF Status
  <2>2. \E c \in Calls : C[c] > 0
    BY <1>2
  <2> QED BY <1>1, <1>2, <1>3, <1>4, <1>6, <1>8, <2>1, <2>2, ChangeStatusInv
<1> QED BY <1>7, <1>8

\* A callback starts an epoch, or waits for the live one.
LEMMA CallbackInv == ASSUME Inv, NEW c \in Calls, callback(c) PROVE Inv'
<1>0. TypeOK
  BY DEF Inv
<1>1. calls' \in [Calls -> 0..MaxCopies] /\ calls[c] > 0
  <2>1. calls' = [calls EXCEPT ![c] = @ - 1] /\ calls[c] > 0
    BY DEF callback
  <2> QED BY <1>0, <2>1, ExecAssumption DEF TypeOK
<1>2. UNCHANGED <<status, round, same, reviewVars, ghosts>> /\ run(c)
  BY DEF callback
<1>3. CASE status # "in_progress"
  <2>1. UNCHANGED <<exec, live, token, deferred, submitted, strikes, rest>>
    BY <1>2, <1>3 DEF run
  <2>2. TypeOK'
    BY <1>0, <1>1, <1>2, <2>1 DEF TypeOK, reviewVars
  <2>3. OneUnsettled' /\ DeferredOK' /\ RejectingOK'
    BY <2>1 DEF Inv, OneUnsettled, DeferredOK, RejectingOK
  <2>4. OneRunning' /\ Listening'
    BY <1>2, <2>1 DEF Inv, OneRunning, InFlight, Listening, Heard
  <2>5. CoveredOK'
    BY <1>2, <1>3 DEF CoveredOK
  <2> QED BY <2>2, <2>3, <2>4, <2>5 DEF Inv
<1>4. CASE status = "in_progress" /\ live # NoExec
  <2>1. deferred' = {c} /\ UNCHANGED <<exec, live, token, submitted, strikes, rest>>
    BY <1>2, <1>4 DEF run
  <2>2. TypeOK'
    BY <1>0, <1>1, <1>2, <2>1 DEF TypeOK, reviewVars
  <2>3. OneUnsettled' /\ DeferredOK' /\ RejectingOK'
    BY <1>4, <2>1 DEF Inv, OneUnsettled, DeferredOK, RejectingOK
  <2>4. OneRunning' /\ Listening'
    BY <1>2, <2>1 DEF Inv, OneRunning, InFlight, Listening, Heard
  <2>5. CoveredOK'
    BY <2>1 DEF CoveredOK, Covered
  <2> QED BY <2>2, <2>3, <2>4, <2>5 DEF Inv
<1>5. CASE status = "in_progress" /\ live = NoExec
  <2>1. start(c)
    BY <1>2, <1>5 DEF run
  <2>2. ghosts' \in 0..MaxGhosts
    BY <1>0, <1>2 DEF TypeOK
  <2> QED BY <1>1, <1>2, <1>5, <2>1, <2>2, StartInv DEF reviewVars
<1> QED BY <1>3, <1>4, <1>5

\* The run button starts an epoch only when none is live.
LEMMA DispatchInv == ASSUME Inv, dispatch PROVE Inv'
<1>1. calls' \in [Calls -> 0..MaxCopies] /\ ghosts' \in 0..MaxGhosts
  BY DEF Inv, TypeOK, dispatch
<1> QED BY <1>1, CallTypes, StartInv DEF dispatch, reviewVars

\* The end of the promise settles the epoch.
LEMMA FinallyInv == ASSUME Inv, NEW e \in Execs, finally(e) PROVE Inv'
<1> DEFINE E == [exec EXCEPT ![e] = Over]
<1>1. E \in [Execs -> Epoch] /\ E[e] = Over /\ \A f \in Execs \ {e} : E[f] = exec[f]
  BY OverIsEpoch DEF Inv, TypeOK
<1>2. E[e].settled /\ E[e].phase = "over"
  BY <1>1 DEF Over
<1>3. settle(e, E, deferred) /\ exec[e].phase = "resolving"
  BY DEF finally
<1>4. token' = token \/ (token = e /\ token' = NoExec)
  BY DEF finally
<1>5. UNCHANGED <<status, round, budgetVars, reviewVars, rest>> /\ ghosts' \in 0..MaxGhosts
      /\ deferred \in {{}} \union {{c} : c \in Calls}
  BY DEF finally, Inv, TypeOK
<1> HIDE DEF E
<1> QED BY <1>1, <1>2, <1>3, <1>4, <1>5, SettleInv

\* An item without closures starts an epoch, or settles the one it was sent for.
LEMMA GhostInv == ASSUME Inv, processGhost PROVE Inv'
<1>0. TypeOK
  BY DEF Inv
<1>1. /\ ghosts' \in 0..MaxGhosts /\ recoverLost
      /\ UNCHANGED <<status, round, same, reviewVars>>
  <2>1. ghosts' \in 0..MaxGhosts
    <3>1. ghosts > 0 /\ ghosts' = ghosts - 1
      BY DEF processGhost
    <3> QED BY <1>0, <3>1, ExecAssumption DEF TypeOK
  <2> QED BY <2>1 DEF processGhost
<1>2. CASE \/ status # "in_progress"
           \/ status = "in_progress" /\ live # NoExec /\ exec[live].round # round
  <2>1. UNCHANGED <<exec, dispatchVars, submitted, strikes, rest>>
    BY <1>1, <1>2 DEF recoverLost
  <2>2. CountersOK' /\ same' \in 0..(MaxSame + 1)
    BY <1>0, <1>1, <2>1 DEF TypeOK, CountersOK, reviewVars
  <2>3. Moved(exec') /\ MoreCalls(calls')
    BY <2>1, NothingMoves DEF dispatchVars
  <2>4. status = "in_progress" /\ Ended' => Covered'
    BY <1>1, <2>1, <2>3, StillCovered DEF dispatchVars
  <2> QED BY <1>1, <2>1, <2>2, <2>3, <2>4, KeepInv DEF dispatchVars
<1>3. CASE status = "in_progress" /\ live = NoExec
  <2>1. start(Attempt(0)) /\ UNCHANGED calls
    BY <1>1, <1>3 DEF recoverLost
  <2>2. calls' \in [Calls -> 0..MaxCopies]
    BY <1>0, <2>1 DEF TypeOK
  <2> QED BY <1>1, <1>3, <2>1, <2>2, CallTypes, StartInv DEF reviewVars
<1>4. CASE status = "in_progress" /\ live # NoExec /\ exec[live].round = round
  <2> DEFINE E == IF exec[live].phase = "lost" THEN [exec EXCEPT ![live] = Over]
                  ELSE [exec EXCEPT ![live].settled = TRUE]
             x == [exec[live] EXCEPT !.settled = TRUE]
  <2>1. settle(live, E, {Attempt(0)}) /\ UNCHANGED <<token, submitted, strikes, rest>>
    BY <1>1, <1>4 DEF recoverLost
  <2>2. live \in Execs /\ exec \in [Execs -> Epoch] /\ exec[live] \in Epoch
    BY <1>0, <1>4 DEF TypeOK
  <2>3. /\ x \in Epoch /\ x.settled /\ x.phase = exec[live].phase
        /\ x.reason = exec[live].reason
    BY <2>2 DEF Epoch
  <2>4. Over.settled /\ Over.phase = "over" /\ Over \in Epoch
    BY OverIsEpoch DEF Over
  <2>5. E = [exec EXCEPT ![live] = Over] \/ E = [exec EXCEPT ![live] = x]
    OBVIOUS
  <2> HIDE DEF x, E
  <2>6. E \in [Execs -> Epoch] /\ (\A f \in Execs \ {live} : E[f] = exec[f])
        /\ (E[live] = Over \/ E[live] = x)
    BY <2>2, <2>3, <2>4, <2>5
  <2>7. ~exec[live].settled
    BY <2>2 DEF Inv, OneUnsettled
  <2>8. /\ E[live].settled
        /\ E[live].phase = "over" \/ (E[live].phase = exec[live].phase /\ E[live].reason = exec[live].reason)
    BY <2>3, <2>4, <2>6
  <2>9. {Attempt(0)} \in {{}} \union {{c} : c \in Calls} /\ {Attempt(0)} # {}
    BY CallTypes
  <2>10. UNCHANGED <<status, round, budgetVars, reviewVars, rest>>
    BY <1>1, <2>1 DEF budgetVars
  <2>11. exec[live].settled => {Attempt(0)} = deferred
    BY <2>7
  <2> QED BY <1>1, <2>1, <2>2, <2>6, <2>8, <2>9, <2>10, <2>11, SettleInv
<1> QED BY <1>2, <1>3, <1>4

\* A step of one epoch that keeps its reason, does not end it and leaves the
\* dispatch alone.
LEMMA PhaseInv ==
  ASSUME Inv, NEW e \in Execs, NEW p \in Phases \ {"resolving"}, exec' = Phase(e, p),
         p \in Active => exec[e].phase \in Active,
         p \in {"running", "submitting"} => e \in InFlight,
         p = "rejecting" => exec[e].reason \in {"none", "lifecycle", "superseded"},
         UNCHANGED <<status, live, token, deferred>>, MoreCalls(calls'), rest' = rest,
         same' \in 0..(MaxSame + 1), CountersOK'
  PROVE  Inv'
<1>1. TypeOK
  BY DEF Inv
<1>2. Moved(exec')
  BY PhaseIsMove
<1>3. \A f \in Execs : /\ exec'[f].phase = IF f = e THEN p ELSE exec[f].phase
                       /\ exec'[f].reason = exec[f].reason
  BY <1>1, PhaseMoves
<1>4. status = "in_progress" /\ Ended' => Covered'
  BY <1>3, StillCovered
<1> QED BY <1>2, <1>4, KeepInv

\* The mailbox loses the closures of an item, a submission begins.
LEMMA LoseInv == ASSUME Inv, NEW e \in Execs, loseClosures(e) \/ submitForReview(e) PROVE Inv'
<1>0. TypeOK
  BY DEF Inv
<1>1. UNCHANGED <<status, round, dispatchVars, budgetVars, reviewVars, rest>>
  BY DEF loseClosures, submitForReview
<1>2. MoreCalls(calls')
  BY <1>1, NothingMoves DEF dispatchVars
<1>3. ghosts' \in 0..MaxGhosts
  <2>1. ghosts' = ghosts \/ (ghosts < MaxGhosts /\ ghosts' = ghosts + 1)
    BY DEF loseClosures, submitForReview
  <2> QED BY <1>0, <2>1, ExecAssumption DEF TypeOK
<1>4. CountersOK' /\ same' \in 0..(MaxSame + 1)
  BY <1>0, <1>1, <1>3 DEF TypeOK, CountersOK, budgetVars, reviewVars
<1>5. CASE loseClosures(e)
  <2>1. exec' = Phase(e, "lost")
    BY <1>5 DEF loseClosures
  <2>2. "lost" \in Phases \ {"resolving"} /\ "lost" \notin Active
    BY DEF Phases, Active
  <2> QED BY <1>1, <1>2, <1>4, <2>1, <2>2, PhaseInv DEF dispatchVars
<1>6. CASE submitForReview(e)
  <2>1. exec' = Phase(e, "submitting") /\ exec[e].phase = "running"
    BY <1>6 DEF submitForReview
  <2>2. "submitting" \in Phases \ {"resolving"} /\ exec[e].phase \in Active /\ e \in InFlight
    BY <2>1 DEF Phases, Active, InFlight
  <2> QED BY <1>1, <1>2, <1>4, <2>1, <2>2, PhaseInv DEF dispatchVars
<1> QED BY <1>5, <1>6

\* An epoch starts to run when no other does; otherwise it ends, and the
\* reason is known.
LEMMA ProcessInv == ASSUME Inv, NEW e \in Execs, process(e) PROVE Inv'
<1>0. TypeOK /\ exec[e].phase = "mailbox"
  BY DEF Inv, process
<1>1. UNCHANGED <<status, round, dispatchVars, budgetVars, reviewVars, ghosts>>
  BY DEF process
<1>2. CASE InFlight # {}
  <2>1. exec' = Phase(e, "resolving") /\ rest' = "duplicate"
    BY <1>2 DEF process
  <2>2. Moved(exec')
    BY <2>1, PhaseIsMove DEF Phases, Active
  <2>3. CountersOK' /\ same' \in 0..(MaxSame + 1)
    BY <1>0, <1>1, <2>1 DEF TypeOK, CountersOK, budgetVars, reviewVars
  <2>4. MoreCalls(calls')
    BY <1>1, NothingMoves DEF dispatchVars
  <2>5. Covered'
    BY <2>1 DEF Covered
  <2> QED BY <1>1, <2>2, <2>3, <2>4, <2>5, KeepInv DEF dispatchVars
<1>3. CASE InFlight = {}
  <2>1. exec' = Phase(e, "running") /\ rest' = rest
    BY <1>3 DEF process
  <2>2. exec' \in [Execs -> Epoch] /\ "running" \in Phases
    BY <1>0, <2>1, PhaseMoves DEF Phases
  <2>3. \A f \in Execs : /\ exec'[f].phase = IF f = e THEN "running" ELSE exec[f].phase
                         /\ exec'[f].reason = exec[f].reason
                         /\ exec'[f].settled = exec[f].settled
    BY <1>0, <2>1, <2>2, PhaseMoves
  <2>4. TypeOK'
    BY <1>0, <1>1, <2>1, <2>2 DEF TypeOK, dispatchVars, budgetVars, reviewVars
  <2>5. OneUnsettled' /\ RejectingOK' /\ DeferredOK'
    BY <1>1, <2>3 DEF Inv, OneUnsettled, RejectingOK, DeferredOK, dispatchVars
  <2>6. OneRunning'
    <3>1. \A f \in Execs : f \in InFlight' => f = e
      BY <1>3, <2>3 DEF InFlight
    <3>2. InFlight' \subseteq Execs
      BY DEF InFlight
    <3> QED BY <3>1, <3>2 DEF OneRunning
  <2>7. Listening'
    <3>1. \A f \in Execs : Heard(f)' => Heard(f)
      BY <1>0, <2>3 DEF Heard, Active
    <3> QED BY <1>1, <3>1 DEF Inv, Listening, dispatchVars
  <2>8. MoreCalls(calls')
    BY <1>1, NothingMoves DEF dispatchVars
  <2>9. CoveredOK'
    BY <1>1, <2>1, <2>3, <2>8, StillCovered DEF CoveredOK, dispatchVars
  <2> QED BY <2>4, <2>5, <2>6, <2>7, <2>9 DEF Inv
<1> QED BY <1>2, <1>3

\* A person stops what the agent does: the epoch still has to report it.
LEMMA StopInv == ASSUME Inv, NEW e \in Execs, cancelActiveStream(e) PROVE Inv'
<1>0. TypeOK /\ exec' = cancelExecutionToken(exec, e, "user_stop") /\ exec[e].phase = "running"
  BY DEF Inv, cancelActiveStream
<1>1. UNCHANGED <<status, round, dispatchVars, budgetVars, reviewVars, ghosts, rest>>
  BY DEF cancelActiveStream
<1>2. Moved(exec') /\ Cancelled(exec, e, "user_stop", exec')
  <2>1. "user_stop" \in Reasons
    BY DEF Reasons
  <2> QED BY <1>0, <2>1, CancelIsMove
<1>3. CountersOK' /\ same' \in 0..(MaxSame + 1)
  BY <1>0, <1>1 DEF TypeOK, CountersOK, budgetVars, reviewVars
<1>4. MoreCalls(calls')
  BY <1>1, NothingMoves DEF dispatchVars
<1>5. \A f \in Execs : /\ exec'[f].phase = exec[f].phase
                       /\ exec'[f].reason \in {exec[f].reason, "user_stop"}
  BY <1>2 DEF Cancelled
<1>6. status = "in_progress" /\ Ended' => Covered'
  BY <1>1, <1>4, <1>5, StillCovered DEF dispatchVars
<1> QED BY <1>1, <1>2, <1>3, <1>4, <1>6, KeepInv DEF dispatchVars

\* What handleExecutionStopped makes of a reason: a resumable one is called
\* again, a person's is known; the others left a call behind when they came.
LEMMA StoppedCovered ==
  ASSUME Inv, NEW why \in Reasons, handleExecutionStopped(why), status = "in_progress",
         why \in {"lifecycle", "superseded"} => Covered
  PROVE  Covered'
<1>1. Attempt(0) \in Calls /\ TypeOK
  BY CallTypes DEF Inv
<1>2. CASE why \in resumable
  <2>1. calls' = Add(calls, Attempt(0))
    BY <1>2 DEF handleExecutionStopped
  <2> QED BY <1>1, <2>1, MoreByOne DEF Covered
<1>3. CASE why \in {"user_stop", "user_cancel"}
  <2>1. rest' = "user"
    BY <1>3 DEF handleExecutionStopped
  <2> QED BY <2>1 DEF Covered
<1>4. CASE why \in {"lifecycle", "superseded"}
  <2>1. Covered /\ calls' = calls /\ rest' = rest /\ UNCHANGED deferred
    BY <1>4 DEF handleExecutionStopped, resumable
  <2> QED BY <2>1 DEF Covered
<1> QED BY <1>2, <1>3, <1>4 DEF Reasons, resumable

\* What handleExecutionStopped leaves alone.
LEMMA StoppedKeeps ==
  ASSUME Inv, NEW why, handleExecutionStopped(why)
  PROVE  /\ UNCHANGED <<status, live, token, deferred>> /\ MoreCalls(calls')
         /\ CountersOK' /\ same' \in 0..(MaxSame + 1)
<1>1. TypeOK /\ Attempt(0) \in Calls
  BY CallTypes DEF Inv
<1>2. UNCHANGED <<status, round, live, token, deferred, budgetVars, reviewVars, ghosts>>
  BY DEF handleExecutionStopped
<1>3. MoreCalls(calls')
  <2>1. calls' = Add(calls, Attempt(0)) \/ calls' = calls
    BY DEF handleExecutionStopped
  <2> QED BY <1>1, <2>1, MoreByOne, NothingMoves
<1>4. rest' \in {"user", rest}
  BY DEF handleExecutionStopped
<1>5. CountersOK' /\ same' \in 0..(MaxSame + 1)
  BY <1>1, <1>2, <1>4 DEF TypeOK, CountersOK, budgetVars, reviewVars
<1> QED BY <1>2, <1>3, <1>5

\* An epoch that saw its cancelled token ends.
LEMMA ReportCancelledInv == ASSUME Inv, NEW e \in Execs, reportCancelled(e) PROVE Inv'
<1>0. TypeOK /\ exec[e] \in Epoch
  BY DEF Inv, TypeOK
<1>1. /\ exec[e].phase = "running" /\ exec[e].reason # "none"
      /\ exec' = Phase(e, "resolving") /\ handleExecutionStopped(exec[e].reason)
  BY DEF reportCancelled
<1>2. exec[e].reason \in Reasons
  BY <1>0, <1>1, EpochFields
<1>3. Moved(exec')
  BY <1>1, PhaseIsMove DEF Phases, Active
<1>4. ASSUME status = "in_progress", Ended' PROVE Covered'
  <2>1. CASE live = e
    <3>1. exec[e].reason \in {"lifecycle", "superseded"} => Covered
      BY <1>4, <2>1 DEF Inv, CoveredOK, Ended
    <3> QED BY <1>1, <1>2, <1>4, <3>1, StoppedCovered
  <2>2. CASE live # e
    <3>1. \A f \in Execs : /\ exec'[f].phase = IF f = e THEN "resolving" ELSE exec[f].phase
                           /\ exec'[f].reason = exec[f].reason
      BY <1>0, <1>1, PhaseMoves DEF Phases
    <3>2. rest' = rest \/ rest' # "none"
      BY <1>1 DEF handleExecutionStopped
    <3> QED BY <1>1, <1>4, <2>2, <3>1, <3>2, StoppedKeeps, StillCovered
  <2> QED BY <2>1, <2>2
<1> QED BY <1>1, <1>3, <1>4, StoppedKeeps, KeepInv

\* The attention controller ends an epoch at a yield point.
LEMMA YieldInv ==
  ASSUME Inv, NEW e \in Execs, NEW why \in {"preempted", "user_cancel"}, yieldTo(e, why)
  PROVE  Inv'
<1>0. TypeOK /\ why \in Reasons
  BY DEF Inv, Reasons
<1>1. /\ exec[e].phase = "running" /\ handleExecutionStopped(why)
      /\ exec' = cancelExecutionToken(Phase(e, "resolving"), e, why)
  BY DEF yieldTo
<1> DEFINE E == Phase(e, "resolving")
<1>2. /\ E \in [Execs -> Epoch]
      /\ \A f \in Execs : E[f].phase = IF f = e THEN "resolving" ELSE exec[f].phase
      /\ \A f \in Execs : E[f].reason = exec[f].reason
      /\ \A f \in Execs : E[f].settled = exec[f].settled
  <2>1. "resolving" \in Phases
    BY DEF Phases
  <2> HIDE DEF Phase
  <2> QED BY <1>0, <2>1, PhaseMoves
<1> HIDE DEF E
<1>3. Cancelled(E, e, why, exec')
  BY <1>0, <1>1, <1>2, CancelToken DEF E
<1>4. /\ exec' \in [Execs -> Epoch]
      /\ \A f \in Execs : exec'[f].phase = E[f].phase /\ exec'[f].settled = E[f].settled
      /\ \A f \in Execs :
           exec'[f].reason = E[f].reason \/ (exec'[f].reason = why /\ E[f].reason = "none" /\ f = e)
  BY <1>3 DEF Cancelled
<1>5. \A f \in Execs : exec[f].phase = "rejecting" => exec[f].reason \in {"none", "lifecycle", "superseded"}
  BY DEF Inv, RejectingOK
<1>6. \A f \in Execs : exec[f].phase \in {"running", "submitting"} => f \in InFlight
  BY DEF InFlight
<1>7. Moved(exec')
  <2> SUFFICES ASSUME NEW f \in Execs
               PROVE  /\ exec'[f].settled = exec[f].settled
                      /\ exec'[f].phase \in Active => exec[f].phase \in Active
                      /\ exec'[f].phase \in {"running", "submitting"} => f \in InFlight
                      /\ exec'[f].reason = "none" => exec[f].reason = "none"
                      /\ exec'[f].phase = "rejecting"
                           => exec'[f].reason \in {"none", "lifecycle", "superseded"}
    BY <1>4 DEF Moved
  <2>1. CASE f = e
    BY <1>2, <1>4, <2>1 DEF Active
  <2>2. CASE f # e
    BY <1>2, <1>4, <1>5, <1>6, <2>2
  <2> QED BY <2>1, <2>2
<1>8. status = "in_progress" => Covered'
  BY <1>0, <1>1, StoppedCovered
<1> QED BY <1>1, <1>7, <1>8, StoppedKeeps, KeepInv

\* The end of a turn moves an epoch that runs or has failed to its end.
LEMMA EndIsMove ==
  ASSUME Inv, NEW e \in Execs
  PROVE  Moved(Phase(e, "resolving"))
<1>1. "resolving" \in Phases /\ "resolving" \notin Active
  BY DEF Phases, Active
<1> HIDE DEF Phase
<1> QED BY <1>1, PhaseIsMove

\* A counter of strikes that is not exhausted stays in its range.
LEMMA StrikesStay ==
  ASSUME TypeOK, ~exhausted
  PROVE  strikes + 1 \in 0..(MaxRetries - 1)
BY ExecAssumption DEF TypeOK, exhausted

\* A task in progress whose turn ends without a submission is called again or
\* fails; after a submission the code knows why nothing follows.
LEMMA ExecutionFinishedInv == ASSUME Inv, NEW e \in Execs, executionFinished(e) PROVE Inv'
<1>0. TypeOK /\ exec[e] \in Epoch
  BY DEF Inv, TypeOK
<1> DEFINE E == Phase(e, "resolving")
           noSubmit == status = "in_progress" /\ ~submitted
           c == Again(exec[e].attempt)
<1>1. Moved(E)
  BY EndIsMove
<1>2. c \in Calls
  BY <1>0, EpochFields, CallTypes
<1>3. MoreCalls(Add(calls, c)) /\ Add(calls, c)[c] > 0 /\ MoreCalls(calls)
  BY <1>0, <1>2, MoreByOne, NothingMoves
<1>4. /\ submitted' = FALSE /\ UNCHANGED <<round, live, reviewVars, ghosts>>
      /\ IF noSubmit /\ ~exec[e].fresh /\ exhausted
           THEN changeStatus("failed", E, calls, FALSE)
           ELSE keepStatus(E, IF ~noSubmit THEN calls ELSE Add(calls, c))
      /\ strikes' = IF ~noSubmit \/ exec[e].fresh THEN strikes
                    ELSE IF exhausted THEN 0 ELSE strikes + 1
      /\ rest' = IF status = "in_progress" /\ submitted THEN "submitted" ELSE rest
  BY DEF executionFinished
<1> HIDE DEF E, c
<1>5. strikes' \in 0..(MaxRetries - 1)
  <2>1. 0 \in 0..(MaxRetries - 1) /\ strikes \in 0..(MaxRetries - 1)
    BY <1>0, ExecAssumption DEF TypeOK
  <2>2. CASE ~noSubmit \/ exec[e].fresh
    BY <1>4, <2>1, <2>2
  <2>3. CASE ~(~noSubmit \/ exec[e].fresh) /\ exhausted
    BY <1>4, <2>1, <2>3
  <2>4. CASE ~(~noSubmit \/ exec[e].fresh) /\ ~exhausted
    <3>1. strikes' = strikes + 1
      BY <1>4, <2>4
    <3> QED BY <1>0, <2>4, <3>1, StrikesStay
  <2> QED BY <2>2, <2>3, <2>4
<1>6. CountersOK'
  BY <1>0, <1>4, <1>5 DEF TypeOK, CountersOK, reviewVars
<1>7. CASE noSubmit /\ ~exec[e].fresh /\ exhausted
  <2>1. changeStatus("failed", E, calls, FALSE)
    BY <1>4, <1>7
  <2>2. "failed" \in Status /\ "failed" # "in_progress"
    BY DEF Status
  <2> QED BY <1>1, <1>3, <1>4, <1>6, <2>1, <2>2, ChangeStatusInv
<1>8. CASE ~(noSubmit /\ ~exec[e].fresh /\ exhausted)
  <2>1. /\ exec' = E /\ UNCHANGED <<status, token, deferred, same>>
        /\ calls' = IF ~noSubmit THEN calls ELSE Add(calls, c)
    BY <1>4, <1>8 DEF keepStatus
  <2>2. MoreCalls(calls')
    BY <1>3, <2>1
  <2>3. status = "in_progress" => Covered'
    <3>1. CASE noSubmit
      BY <1>2, <1>3, <2>1, <3>1 DEF Covered
    <3>2. CASE status = "in_progress" /\ submitted
      BY <1>4, <3>2 DEF Covered
    <3> QED BY <3>1, <3>2
  <2>4. same' \in 0..(MaxSame + 1)
    BY <1>0, <2>1 DEF TypeOK
  <2> QED BY <1>1, <1>4, <1>6, <2>1, <2>2, <2>3, <2>4, KeepInv
<1> QED BY <1>7, <1>8

\* A task that is told to fail: in progress it can.
LEMMA FailInv ==
  ASSUME Inv, NEW E, Moved(E), fail(E), UNCHANGED live, CountersOK'
  PROVE  Inv'
<1>1. MoreCalls(calls) /\ TypeOK
  BY NothingMoves DEF Inv
<1>2. CASE isValidTaskTransition("failed")
  <2>1. changeStatus("failed", E, calls, FALSE)
    BY <1>2 DEF fail
  <2>2. "failed" \in Status /\ "failed" # "in_progress"
    BY DEF Status
  <2> QED BY <1>1, <2>1, <2>2, ChangeStatusInv
<1>3. CASE ~isValidTaskTransition("failed")
  <2>1. exec' = E /\ same' = 0 /\ UNCHANGED <<status, token, deferred, calls>>
    BY <1>3 DEF fail
  <2>2. status # "in_progress"
    BY <1>3 DEF isValidTaskTransition, transitions
  <2>3. same' \in 0..(MaxSame + 1)
    BY <2>1, ExecAssumption
  <2> QED BY <1>1, <2>1, <2>2, <2>3, KeepInv
<1> QED BY <1>2, <1>3

\* The counter of identical errors stays in its range.
LEMMA SameStays ==
  ASSUME TypeOK, NEW e \in Execs, NEW retryable \in BOOLEAN, NEW repeated \in BOOLEAN
  PROVE  sameAfter(e, retryable, repeated) \in 0..(MaxSame + 1)
<1>1. same \in 0..(MaxSame + 1) /\ MaxSame \in Nat
  BY ExecAssumption DEF TypeOK
<1>2. CASE ~counts(e, retryable)
  BY <1>1, <1>2 DEF sameAfter
<1>3. CASE counts(e, retryable)
  <2>1. sameAfter(e, retryable, repeated)
          = IF repeated THEN (IF same <= MaxSame THEN same + 1 ELSE same) ELSE 1
    BY <1>3 DEF sameAfter
  <2> QED BY <1>1, <2>1
<1> QED BY <1>2, <1>3

\* An error is retried, or fails the task.
LEMMA ReportErrorInv ==
  ASSUME Inv, NEW e \in Execs, NEW retryable \in BOOLEAN, NEW repeated \in BOOLEAN,
         reportError(e, retryable, repeated)
  PROVE  Inv'
<1>0. TypeOK /\ exec[e] \in Epoch
  BY DEF Inv, TypeOK
<1> DEFINE E == Phase(e, "rejecting")
           c == Again(exec[e].attempt)
           retried == shouldRetryTask(e, retryable, repeated)
<1>1. /\ UNCHANGED <<round, live, submitted, strikes, reviewVars, ghosts, rest>>
      /\ exec[e].phase = "running" /\ exec[e].reason = "none"
      /\ retried => /\ exec' = E /\ UNCHANGED <<status, token, deferred>>
                    /\ calls' = IF exec[e].fresh THEN calls ELSE Add(calls, c)
                    /\ same' = sameAfter(e, retryable, repeated)
      /\ ~retried => fail(E)
  BY DEF reportError
<1>2. /\ "rejecting" \in Phases \ {"resolving"} /\ "rejecting" \notin Active
      /\ exec[e].reason \in {"none", "lifecycle", "superseded"}
  BY <1>1 DEF Phases, Active
<1>3. CountersOK'
  BY <1>0, <1>1 DEF TypeOK, CountersOK, reviewVars
<1> HIDE DEF retried
<1>4. CASE retried
  <2>1. exec' = Phase(e, "rejecting") /\ UNCHANGED <<status, live, token, deferred>> /\ rest' = rest
    BY <1>1, <1>4
  <2>2. MoreCalls(calls')
    <3>1. c \in Calls
      BY <1>0, EpochFields, CallTypes
    <3> HIDE DEF c
    <3>2. calls' = calls \/ calls' = Add(calls, c)
      BY <1>1, <1>4
    <3> QED BY <1>0, <3>1, <3>2, MoreByOne, NothingMoves
  <2>3. same' \in 0..(MaxSame + 1)
    BY <1>0, <1>1, <1>4, SameStays
  <2> HIDE DEF Phase
  <2> QED BY <1>2, <1>3, <2>1, <2>2, <2>3, PhaseInv
<1>5. CASE ~retried
  <2>1. fail(E) /\ UNCHANGED live
    BY <1>1, <1>5
  <2>2. Moved(E)
    <3> HIDE DEF Phase
    <3> QED BY <1>2, PhaseIsMove
  <2> HIDE DEF E
  <2> QED BY <1>3, <2>1, <2>2, FailInv
<1> QED BY <1>4, <1>5

\* The promise of a failed epoch is rejected: the error is decided on again,
\* unless the epoch was told to stop in between.
LEMMA CatchInv ==
  ASSUME Inv, NEW e \in Execs, NEW retryable \in BOOLEAN, NEW repeated \in BOOLEAN,
         catch(e, retryable, repeated)
  PROVE  Inv'
<1>0. TypeOK /\ exec[e] \in Epoch
  BY DEF Inv, TypeOK
<1> DEFINE E == Phase(e, "resolving")
           c == Again(exec[e].attempt)
           retried == ~exec[e].fresh /\ shouldRetryTask(e, retryable, repeated)
<1>1. /\ UNCHANGED <<round, live, submitted, strikes, reviewVars, ghosts, rest>>
      /\ exec[e].phase = "rejecting"
      /\ exec[e].reason # "none" => keepStatus(E, calls)
      /\ exec[e].reason = "none" /\ retried =>
           /\ exec' = E /\ UNCHANGED <<status, token, deferred>>
           /\ calls' = Add(calls, c) /\ same' = sameAfter(e, retryable, repeated)
      /\ exec[e].reason = "none" /\ ~retried => fail(E)
  BY DEF catch
<1>2. Moved(E) /\ MoreCalls(calls)
  BY EndIsMove, NothingMoves
<1>3. CountersOK'
  BY <1>0, <1>1 DEF TypeOK, CountersOK, reviewVars
<1> HIDE DEF retried
<1>4. CASE exec[e].reason # "none"
  <2>1. exec' = E /\ calls' = calls /\ UNCHANGED <<status, live, token, deferred, same, rest>>
    BY <1>1, <1>4 DEF keepStatus
  <2>2. same' \in 0..(MaxSame + 1)
    BY <1>0, <2>1 DEF TypeOK
  <2>3. ASSUME status = "in_progress", Ended' PROVE Covered'
    <3>1. CASE live = e
      <4>1. exec[e].reason \in {"lifecycle", "superseded"}
        BY <1>1, <1>4 DEF Inv, RejectingOK
      <4>2. Covered
        BY <2>3, <3>1, <4>1 DEF Inv, CoveredOK, Ended
      <4> QED BY <1>0, <1>2, <2>1, <4>2, StaysCovered
    <3>2. CASE live # e
      <4>1. \A f \in Execs : /\ exec'[f].phase = IF f = e THEN "resolving" ELSE exec[f].phase
                             /\ exec'[f].reason = exec[f].reason
        <5>1. "resolving" \in Phases
          BY DEF Phases
        <5> HIDE DEF Phase
        <5> QED BY <1>0, <2>1, <5>1, PhaseMoves
      <4> HIDE DEF E
      <4> QED BY <1>2, <2>1, <2>3, <3>2, <4>1, StillCovered
    <3> QED BY <3>1, <3>2
  <2> HIDE DEF E
  <2> QED BY <1>2, <1>3, <2>1, <2>2, <2>3, KeepInv
<1>5. CASE exec[e].reason = "none" /\ retried
  <2>1. c \in Calls
    BY <1>0, EpochFields, CallTypes
  <2> HIDE DEF c, E
  <2>2. exec' = E /\ calls' = Add(calls, c) /\ UNCHANGED <<status, live, token, deferred>>
    BY <1>1, <1>5
  <2>3. MoreCalls(calls') /\ calls'[c] > 0
    BY <1>0, <2>1, <2>2, MoreByOne
  <2>4. Covered'
    BY <2>1, <2>3 DEF Covered
  <2>5. same' \in 0..(MaxSame + 1)
    BY <1>0, <1>1, <1>5, SameStays
  <2> QED BY <1>2, <1>3, <2>2, <2>3, <2>4, <2>5, KeepInv
<1>6. CASE exec[e].reason = "none" /\ ~retried
  <2>1. fail(E) /\ UNCHANGED live
    BY <1>1, <1>6
  <2> HIDE DEF E
  <2> QED BY <1>2, <1>3, <2>1, FailInv
<1> QED BY <1>4, <1>5, <1>6

\* A submission goes to review, if the task is still in progress.
LEMMA SubmissionInv == ASSUME Inv, NEW e \in Execs, submissionReviewed(e) PROVE Inv'
<1>0. TypeOK
  BY DEF Inv
<1> DEFINE E == Phase(e, "running")
<1>1. /\ exec[e].phase = "submitting" /\ submitted' = TRUE
      /\ tryStatus("review", E, calls)
      /\ UNCHANGED <<round, live, strikes, revising, gate, ghosts, rest>>
  BY DEF submissionReviewed
<1>2. "running" \in Phases /\ exec[e].phase \in Active /\ e \in InFlight /\ "review" \in Status
  BY <1>1 DEF Phases, Active, InFlight, Status
<1>3. /\ \A f \in Execs : E[f].phase = "resolving" => exec[f].phase = "resolving"
      /\ \A f \in Execs : E[f].reason = exec[f].reason
  <2> HIDE DEF Phase
  <2> QED BY <1>0, <1>2, PhaseMoves
<1>4. Moved(E)
  <2> HIDE DEF Phase
  <2> QED BY <1>2, PhaseIsMove
<1>5. CountersOK' /\ MoreCalls(calls)
  BY <1>0, <1>1, NothingMoves DEF TypeOK, CountersOK
<1> HIDE DEF E
<1> QED BY <1>1, <1>2, <1>3, <1>4, <1>5, TryStatusInv

\* A change of status, or a refusal, that a verdict brings.
LEMMA VerdictInv ==
  ASSUME Inv, tryStatus("in_progress", exec, calls) \/ keepStatus(exec, calls),
         UNCHANGED live, CountersOK', rest' = rest
  PROVE  Inv'
<1>1. Moved(exec) /\ MoreCalls(calls) /\ TypeOK
  BY NothingMoves DEF Inv
<1>2. CASE tryStatus("in_progress", exec, calls)
  <2>1. "in_progress" \in Status
    BY DEF Status
  <2> QED BY <1>1, <1>2, <2>1, TryStatusInv
<1>3. CASE keepStatus(exec, calls)
  <2>1. exec' = exec /\ calls' = calls /\ UNCHANGED <<status, token, deferred, same>>
    BY <1>3 DEF keepStatus
  <2>2. same' \in 0..(MaxSame + 1)
    BY <1>1, <2>1 DEF TypeOK
  <2>3. status = "in_progress" /\ Ended' => Covered'
    BY <1>1, <2>1, StillCovered
  <2> QED BY <1>1, <2>1, <2>2, <2>3, KeepInv
<1> QED BY <1>2, <1>3

\* The work is accepted.
LEMMA AcceptInv == ASSUME Inv, acceptTask PROVE Inv'
<1>1. "completed" \in Status /\ isValidTaskTransition("completed")
  BY DEF acceptTask, isValidTaskTransition, transitions, Status
<1>2. CountersOK'
  BY DEF acceptTask, Inv, TypeOK, CountersOK
<1> QED BY <1>1, <1>2, SetStatusInv DEF acceptTask

\* Another round is opened, and its comment stored; a person asks for changes,
\* and so on.
LEMMA ReviewInv ==
  ASSUME Inv, \/ requestRevision \/ requestChanges \/ changesStored
              \/ \E by \in {"agent", "human"} : revisionStored(by)
  PROVE  Inv'
<1>0. TypeOK
  BY DEF Inv
<1>1. CASE requestRevision
  <2>1. revising' \in 0..MaxCopies /\ round' \in 1..MaxRound
    BY <1>0, <1>1, ExecAssumption DEF requestRevision, TypeOK
  <2>2. CountersOK'
    BY <1>0, <1>1, <2>1 DEF requestRevision, TypeOK, CountersOK
  <2> QED BY <1>1, <2>2, VerdictInv DEF requestRevision
<1>2. CASE requestChanges
  <2>1. UNCHANGED <<status, round, exec, live, token, deferred, calls, submitted, strikes, same,
                    revising, ghosts, rest>> /\ gate' = 1
    BY <1>2 DEF requestChanges, dispatchVars, budgetVars
  <2>2. CountersOK'
    BY <1>0, <2>1 DEF TypeOK, CountersOK
  <2>3. keepStatus(exec, calls)
    BY <2>1 DEF keepStatus
  <2> QED BY <2>1, <2>2, <2>3, VerdictInv
<1>3. CASE changesStored
  <2>1. CountersOK'
    BY <1>0, <1>3 DEF changesStored, TypeOK, CountersOK
  <2> QED BY <1>3, <2>1, VerdictInv DEF changesStored
<1>4. CASE \E by \in {"agent", "human"} : revisionStored(by)
  <2>1. PICK by \in {"agent", "human"} : revisionStored(by)
    BY <1>4
  <2>2. revising' \in 0..MaxCopies
    BY <1>0, <2>1, ExecAssumption DEF revisionStored, TypeOK
  <2>3. CountersOK'
    BY <1>0, <2>1, <2>2 DEF revisionStored, TypeOK, CountersOK
  <2>4. UNCHANGED <<live, rest>>
        /\ (tryStatus("in_progress", exec, calls) \/ keepStatus(exec, calls))
    BY <2>1 DEF revisionStored
  <2> QED BY <2>3, <2>4, VerdictInv
<1> QED BY <1>1, <1>2, <1>3, <1>4

\* After a restart no epoch is left, and a task in progress is called.
LEMMA CrashInv == ASSUME Inv, crash PROVE Inv'
<1>0. TypeOK
  BY DEF Inv
<1>1. /\ exec' = [e \in Execs |-> Over] /\ live' = NoExec /\ token' = NoExec /\ deferred' = {}
      /\ calls' = [c \in Calls |-> IF c = Attempt(0) /\ status = "in_progress" THEN 1 ELSE 0]
      /\ submitted' = FALSE /\ strikes' = 0 /\ same' = 0 /\ revising' = 0 /\ gate' = 0
      /\ rest' = "none" /\ UNCHANGED <<status, round>>
  BY DEF crash
<1>2. ghosts' \in 0..MaxGhosts
  <2> DEFINE sent == {e \in Execs : exec[e].phase \in {"mailbox", "running", "submitting"}}
  <2>1. PICK n \in 0..Cardinality(sent) :
          ghosts' = IF ghosts + n <= MaxGhosts THEN ghosts + n ELSE MaxGhosts
    BY DEF crash
  <2>2. Cardinality(sent) \in Nat
    <3>1. IsFiniteSet(sent)
      <4> HIDE DEF TypeOK
      <4>1. IsFiniteSet(Execs) /\ sent \subseteq Execs
        BY ExecAssumption
      <4> HIDE DEF sent
      <4> QED BY <4>1, FS_Subset
    <3> HIDE DEF sent
    <3> QED BY <3>1, FS_CardinalityType
  <2> HIDE DEF sent
  <2>3. n \in Nat /\ ghosts \in 0..MaxGhosts /\ MaxGhosts \in Nat
    BY <1>0, <2>2, ExecAssumption DEF TypeOK
  <2> QED BY <2>1, <2>3
<1>3. /\ exec' \in [Execs -> Epoch]
      /\ \A e \in Execs : exec'[e].phase = "over" /\ exec'[e].settled
  BY <1>1, OverIsEpoch DEF Over
<1>4. calls' \in [Calls -> 0..MaxCopies]
      /\ (status = "in_progress" => calls'[Attempt(0)] > 0)
  <2>1. 0 \in 0..MaxCopies /\ 1 \in 0..MaxCopies
    BY ExecAssumption
  <2> QED BY <1>1, <2>1, CallTypes
<1>5. TypeOK'
  <2>1. 0 \in 0..(MaxRetries - 1) /\ 0 \in 0..(MaxSame + 1) /\ 0 \in 0..MaxCopies /\ 0 \in 0..1
    BY ExecAssumption
  <2> QED BY <1>0, <1>1, <1>2, <1>3, <1>4, <2>1 DEF TypeOK
<1>6. OneUnsettled' /\ DeferredOK'
  BY <1>1, <1>3, ExecAssumption DEF OneUnsettled, DeferredOK, NoExec
<1>7. OneRunning' /\ Listening' /\ RejectingOK'
  BY <1>3 DEF OneRunning, InFlight, Listening, Heard, RejectingOK
<1>8. CoveredOK'
  BY <1>1, <1>4, CallTypes DEF CoveredOK, Covered
<1> QED BY <1>5, <1>6, <1>7, <1>8 DEF Inv

-----------------------------------------------------------------------------
(* Every step keeps the invariant. *)

\* The invariant is inductive.
LEMMA InvInductive == Inv /\ [Next]_vars => Inv'
<1> SUFFICES ASSUME Inv, [Next]_vars PROVE Inv'
  OBVIOUS
<1>1. CASE UNCHANGED vars
  <2>1. UNCHANGED <<status, round, exec, live, token, deferred, calls, submitted, strikes, same,
                    revising, gate, ghosts, rest>>
    BY <1>1 DEF vars, dispatchVars, budgetVars, reviewVars
  <2>2. CountersOK'
    BY <2>1 DEF Inv, TypeOK, CountersOK
  <2>3. keepStatus(exec, calls)
    BY <2>1 DEF keepStatus
  <2> QED BY <2>1, <2>2, <2>3, VerdictInv
<1>2. CASE \/ approveTask \/ rejectTask \/ pauseTask \/ resumeTask \/ cancelTask
           \/ archiveTask \/ checkTimeouts \/ reopen
  BY <1>2, RequestsInv
<1>3. CASE resetTaskForRerun \/ retryTaskFresh \/ dispatch \/ processGhost \/ crash
  BY <1>3, RerunInv, RetryFreshInv, DispatchInv, GhostInv, CrashInv
<1>4. CASE \E c \in Calls : callback(c)
  BY <1>4, CallbackInv
<1>5. ASSUME NEW e \in Execs,
             \/ loseClosures(e) \/ process(e) \/ cancelActiveStream(e) \/ submitForReview(e)
      PROVE  Inv'
  BY <1>5, LoseInv, ProcessInv, StopInv
<1>6. ASSUME NEW e \in Execs, Ends(e) PROVE Inv'
  <2>1. CASE \E retryable, repeated \in BOOLEAN : reportError(e, retryable, repeated)
    BY <2>1, ReportErrorInv
  <2>2. CASE \E why \in {"preempted", "user_cancel"} : yieldTo(e, why)
    BY <2>2, YieldInv
  <2>3. CASE reportCancelled(e) \/ executionFinished(e)
    BY <2>3, ReportCancelledInv, ExecutionFinishedInv
  <2> QED BY <1>6, <2>1, <2>2, <2>3 DEF Ends
<1>7. ASSUME NEW e \in Execs, Closes(e) PROVE Inv'
  <2>1. CASE \E retryable, repeated \in BOOLEAN : catch(e, retryable, repeated)
    BY <2>1, CatchInv
  <2>2. CASE submissionReviewed(e) \/ finally(e)
    BY <2>2, SubmissionInv, FinallyInv
  <2> QED BY <1>7, <2>1, <2>2 DEF Closes
<1>8. CASE acceptTask
  BY <1>8, AcceptInv
<1>9. CASE \/ requestRevision \/ requestChanges \/ changesStored
           \/ \E by \in {"agent", "human"} : revisionStored(by)
  BY <1>9, ReviewInv
<1> HIDE DEF Inv, vars
<1> QED BY <1>1, <1>2, <1>3, <1>4, <1>5, <1>6, <1>7, <1>8, <1>9 DEF Next

\* The inductive invariant holds of every behaviour.
THEOREM ExecutionInvariant == Spec => []Inv
<1>1. Init => Inv
  BY InitInv
<1>2. Inv /\ [Next]_vars => Inv'
  BY InvInductive
<1> QED BY <1>1, <1>2, PTL DEF Spec

\* Two sessions never write the same worktree: whatever is dispatched, retried,
\* recovered after a lost closure or a crash, or replayed, the agent runs at
\* most one execution of a task.
THEOREM SingleWriter == Spec => []OneWriter
<1>1. Inv => OneWriter
  <2> SUFFICES ASSUME Inv PROVE Cardinality(InFlight) <= 1
    BY DEF OneWriter
  <2>1. \A e, f \in InFlight : e = f
    BY DEF Inv, OneRunning
  <2>2. CASE InFlight = {}
    BY <2>2, FS_EmptySet
  <2>3. CASE InFlight # {}
    <3>1. PICK e \in InFlight : TRUE
      BY <2>3
    <3>2. InFlight = {e}
      BY <2>1, <3>1
    <3> QED BY <3>2, FS_Singleton
  <2> QED BY <2>2, <2>3
<1> QED BY <1>1, ExecutionInvariant, PTL

\* Single flight: the registered epoch is the one epoch that is not settled.
THEOREM SingleFlight == Spec => []OneUnsettled
<1>1. Inv => OneUnsettled
  BY DEF Inv
<1> QED BY <1>1, ExecutionInvariant, PTL

\* No work is lost in silence: a task in progress has an epoch, a callback that
\* will start one, or an end that the code knows of.
THEOREM WorkIsNotLost == Spec => []NoSilentLoss
<1>1. Inv => NoSilentLoss
  <2> SUFFICES ASSUME Inv, status = "in_progress", live = NoExec
               PROVE  (\E c \in Calls : calls[c] > 0) \/ rest # "none"
    BY DEF NoSilentLoss
  <2>1. deferred = {}
    BY DEF Inv, DeferredOK
  <2>2. Covered
    BY DEF Inv, CoveredOK, Ended
  <2> QED BY <2>1, <2>2 DEF Covered
<1> QED BY <1>1, ExecutionInvariant, PTL

\* Whatever takes a task out of in_progress, its registered execution has been
\* told to stop.
THEOREM ExecutionsAreStopped == Spec => []StoppedWhenLeft
<1>1. Inv => StoppedWhenLeft
  BY DEF Inv, Listening, Heard, Active, StoppedWhenLeft
<1> QED BY <1>1, ExecutionInvariant, PTL

=============================================================================
