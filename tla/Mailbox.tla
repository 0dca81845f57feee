------------------------------ MODULE Mailbox ------------------------------
(***************************************************************************)
(* The mailbox of one agent: packages/core/src/mailbox.ts in memory, the   *)
(* table mailbox_items behind it (SqliteMailboxRepo of                     *)
(* packages/storage/src/sqlite-storage.ts), and the way the loops of       *)
(* packages/core/src/attention.ts, the mailbox tools, the HTTP API and the *)
(* start-up code use them.  A process handles one JavaScript turn at a     *)
(* time, so a turn is one action; the process may be killed between two    *)
(* turns, or between the two writes that settle an item, and is then       *)
(* started again with an empty memory.                                     *)
(*                                                                         *)
(* One worker is the serial loop runLoop; several are the pool of          *)
(* concurrentWorkerLoop, which locks the entities an item is about.        *)
(***************************************************************************)
EXTENDS Naturals, Sequences, FiniteSets

CONSTANTS Workers,   \* attention workers (one: the serial loop)
          Messages,  \* what producers enqueue
          MaxItems,  \* bound: mailbox items ever created
          MaxAge,    \* bound: 0 no row ages, 1 past 4 hours, 2 past 3 days
          Droppable, \* items somebody drops by identifier, wherever they are
          SaveFaults \* TRUE: an INSERT may throw (the adapter swallows it)

NoItem == 0
None == 0
Items == 1..MaxItems

\* The scopes of MAILBOX_TYPE_REGISTRY: what an item of a type can be about.
Scopes == [
  system_event |-> {}, human_chat |-> {"task", "req", "conv"},
  task_comment |-> {"task", "req"}, mention |-> {"task", "req", "user", "conv"},
  session_reply |-> {"task", "req", "conv"}, task_status_update |-> {"task"},
  a2a_message |-> {"task", "req", "chan"}, review_request |-> {"task", "req"},
  requirement_comment |-> {"task", "req"}, requirement_update |-> {"req"},
  daily_report |-> {}, heartbeat |-> {}, memory_consolidation |-> {},
  workflow_update |-> {"task", "req"}, callback_result |-> {"conv"}]

\* A message: its type, the flags of payload.extra, the review round and the
\* things it refers to (None where it names none).
MessageType ==
  [type : DOMAIN Scopes, exec : BOOLEAN, action : BOOLEAN, mention : BOOLEAN,
   prio : Nat, round : Nat,
   ref : [{"task", "req", "user", "conv", "chan", "session"} -> Nat]]

ASSUME MailboxAssumption ==
  /\ IsFiniteSet(Workers) /\ Workers # {}
  /\ Messages \subseteq MessageType
  /\ \A m \in Messages : m.exec => m.type = "task_status_update"
  /\ MaxItems \in Nat
  /\ MaxAge \in 0..2
  /\ Droppable \subseteq Items
  /\ SaveFaults \in BOOLEAN

Serial == Cardinality(Workers) = 1

isStrictStateItem(m) ==
  \/ m.exec
  \/ m.type = "review_request"
  \/ m.type \in {"requirement_update", "workflow_update"} /\ m.action

isUserMessage(m) == m.type = "human_chat"

isNeverPurgeable(m) ==
  isStrictStateItem(m) \/ m.type = "callback_result" \/ m.action \/ m.mention

\* The types that lose their interest after TRIAGE_STALE_INFO_TTL_MS.
staleTypes == {"task_status_update", "heartbeat", "memory_consolidation",
               "daily_report", "callback_result"}

\* What deliberation may not complete, defer or drop.
isProtected(m) == isUserMessage(m) \/ isStrictStateItem(m) \/ m.mention

\* <<task, round>> for the types delivered at most once per round, else <<>>.
mailboxDedupKey(m) ==
  IF m.type = "review_request" /\ m.ref["task"] # None /\ m.round # None
  THEN <<m.ref["task"], m.round>> ELSE <<>>

SystemKey == <<"system", None>>
RefKeys(m, S) == {<<s, m.ref[s]>> : s \in {t \in S : m.ref[t] # None}}
resolveEntityKeys(m) ==
  LET keys == RefKeys(m, Scopes[m.type])
  IN IF keys = {} THEN {SystemKey} ELSE keys

\* What a worker locks: the entities, and the session the turn writes to.
lockKeysFor(m) == resolveEntityKeys(m) \union RefKeys(m, {"session"})
Keys == UNION {lockKeysFor(m) : m \in Messages}

\* Arrivals of these types are merged into a queued one with the same key.
MergeKey(m) ==
  CASE m.type = "task_comment" /\ ~isStrictStateItem(m) -> <<"task", m.ref["task"]>>
    [] m.type = "requirement_comment" /\ ~isStrictStateItem(m) -> <<"req", m.ref["req"]>>
    [] m.type = "a2a_message" /\ ~isStrictStateItem(m) -> <<"chan", m.ref["chan"]>>
    [] OTHER -> <<"", None>>

\* The group in which consolidateByEntity merges a queued item.
GroupKey(m) ==
  IF isStrictStateItem(m) \/ isUserMessage(m) THEN <<"", None>>
  ELSE IF m.ref["task"] # None THEN <<"task", m.ref["task"]>>
  ELSE IF m.ref["req"] # None THEN <<"req", m.ref["req"]>>
  ELSE IF m.type = "a2a_message" THEN <<"chan", m.ref["chan"]>>
  ELSE <<"", None>>

VARIABLES msg,    \* the messages of the items created so far, by item
          prio,   \* item -> priority of the object in memory
          rows,   \* item -> its row of mailbox_items
          queue,  \* the array `queue` of the mailbox, as item identifiers
          hand,   \* worker -> the item it took, NoItem when it has none
          stage,  \* worker -> idle, claimed, deliberating, working or resolved
          batch,  \* items taken along with the one in hand (serial loop)
          locks,  \* entityLocks: key -> holder, NoItem when free
          hbId,   \* _processingHeartbeatId, NoItem when undefined
          served  \* history: items with a review round that were completed

vars == <<msg, prio, rows, queue, hand, stage, batch, locks, hbId, served>>

\* claimed_by is "self" for this process and "dead" for an earlier one; the
\* lease is valid until lease_until has passed.  `age` is that of queued_at.
Status == {"absent", "queued", "processing", "completed", "deferred",
           "merged", "dropped"}
Row == [status : Status, by : {"none", "self", "dead"}, valid : BOOLEAN,
        age : 0..2, prio : Nat]
NoRow == [status |-> "absent", by |-> "none", valid |-> FALSE,
          age |-> 0, prio |-> 0]

Init ==
  /\ msg = <<>>
  /\ prio = [i \in Items |-> 0]
  /\ rows = [i \in Items |-> NoRow]
  /\ queue = <<>>
  /\ hand = [w \in Workers |-> NoItem]
  /\ stage = [w \in Workers |-> "idle"]
  /\ batch = {}
  /\ locks = [k \in Keys |-> NoItem]
  /\ hbId = NoItem
  /\ served = {}

-----------------------------------------------------------------------------
(***************************************************************************)
(* The rows.  Each operator is one SQL statement: R with row i rewritten.  *)
(***************************************************************************)
updateStatus(R, i, s) ==
  IF R[i].status = "absent" THEN R ELSE [R EXCEPT ![i].status = s]

releaseClaim(R, i) ==
  IF R[i].by = "self"
  THEN [R EXCEPT ![i].by = "none", ![i].valid = FALSE] ELSE R

\* updateStatus, then releaseClaim: how a worker settles an item it holds.
settle(R, i, s) == releaseClaim(updateStatus(R, i, s), i)

\* A row that waits unclaimed since now.
Waiting(p) == [status |-> "queued", by |-> "none", valid |-> FALSE, age |-> 0, prio |-> p]

Requeueable == {"queued", "processing", "dropped"}
requeueItem(R, i) ==
  IF R[i].status \in Requeueable THEN [R EXCEPT ![i] = Waiting(R[i].prio)] ELSE R

\* claimItem succeeds on a queued row without a valid lease, and on no row.
claimable(R, i) ==
  \/ R[i].status = "absent"
  \/ R[i].status = "queued" /\ (R[i].by = "none" \/ ~R[i].valid)
claimItem(R, i) ==
  IF R[i].status = "absent" THEN R
  ELSE [R EXCEPT ![i] = [status |-> "processing", by |-> "self", valid |-> TRUE,
                         age |-> R[i].age, prio |-> R[i].prio]]

save(R, i, p) == [R EXCEPT ![i] = Waiting(p)]

\* markStaleProcessingAsDropped for this process: rows left in processing
\* without a valid lease of its own are queued again if strict, else dropped.
Orphan(r) == r.status = "processing" /\ (r.by # "self" \/ ~r.valid)

\* Mutant of markStaleProcessingAsDropped: every orphan is dropped.
markStaleDropsAll(R) ==
  [i \in Items |-> IF Orphan(R[i]) THEN [R[i] EXCEPT !.status = "dropped"] ELSE R[i]]

markStaleProcessingAsDropped(R) ==
  [i \in Items |->
     IF ~Orphan(R[i]) THEN R[i]
     ELSE IF isStrictStateItem(msg[i]) THEN requeueItem(R, i)[i]
     ELSE [R[i] EXCEPT !.status = "dropped"]]

SettleAll(R, S, s) == [i \in Items |-> IF i \in S THEN settle(R, i, s)[i] ELSE R[i]]
SetStatus(R, S, s) == [i \in Items |-> IF i \in S THEN updateStatus(R, i, s)[i] ELSE R[i]]

(***************************************************************************)
(* The queue.  Each operator is the set of the arrays an operation may     *)
(* leave: one array, except for Loaded, where new items of equal priority  *)
(* come in an order the model does not keep.                               *)
(***************************************************************************)
IsQueued(q, i) == \E k \in 1..Len(q) : q[k] = i

\* The array q with only the positions in K left.
Kept(q, K) ==
  {[n \in 1..Cardinality(K) |-> q[f[n]]] :
     f \in {g \in [1..Cardinality(K) -> K] :
              /\ \A m, n \in 1..Cardinality(K) : m < n => g[m] < g[n]
              /\ \A k \in K : \E n \in 1..Cardinality(K) : g[n] = k}}
Without(q, S) == Kept(q, {k \in 1..Len(q) : q[k] \notin S})

\* splice(findIndex(id), 1): the first entry of item i is removed.
First(q, i) == {k \in 1..Len(q) : q[k] = i /\ \A j \in 1..(k - 1) : q[j] # i}
RemoveFirstOf(q, i) == Kept(q, (1..Len(q)) \ First(q, i))

InsertAt(q, k, i) ==
  [n \in 1..(Len(q) + 1) |->
     IF n < k THEN q[n] ELSE IF n = k THEN i ELSE q[n - 1]]

\* Mutant of insertSorted: at the end, whatever the priority.
insertSortedLate(q, i, p) == {Append(q, i)}

\* insertSorted: before the first entry whose priority number is not smaller.
insertSorted(q, i, p) ==
  {InsertAt(q, k, i) :
     k \in {n \in 1..(Len(q) + 1) :
              /\ \A j \in 1..(n - 1) : p[q[j]] < p[i]
              /\ n <= Len(q) => p[q[n]] >= p[i]}}

\* The items of S inserted one after the other, in some order.
Loaded(q, S, p) ==
  {r \in [1..(Len(q) + Cardinality(S)) -> Items] :
     /\ \A i \in S : \E n \in DOMAIN r : r[n] = i
     /\ \A m, n \in DOMAIN r : m < n =>
          /\ r[m] \in S => p[r[m]] <= p[r[n]]
          /\ r[m] \notin S /\ r[n] \in S => p[r[m]] < p[r[n]]
     /\ q \in Without(r, S)}

-----------------------------------------------------------------------------
(***************************************************************************)
(* Delivery.                                                               *)
(***************************************************************************)
NextItem == Len(msg) + 1

\* tryMergeIntoExisting: the queued items a new message m is merged into.
MergeTargets(m) ==
  {i \in Items : /\ IsQueued(queue, i) /\ MergeKey(m)[2] # None
                 /\ MergeKey(msg[i]) = MergeKey(m)}

\* A heartbeat that asks for nothing is folded into a pending one.
Folds(m) ==
  /\ m.type = "heartbeat" /\ ~m.action /\ ~m.mention
  /\ \/ hbId # NoItem
     \/ \E i \in Items : IsQueued(queue, i) /\ msg[i].type = "heartbeat"

\* Mutant of SameRound: a round that is completed is not found any more.
SameRoundOpen(m) ==
  {i \in Items : /\ rows[i].status \notin {"absent", "completed"}
                 /\ mailboxDedupKey(m) # <<>>
                 /\ mailboxDedupKey(msg[i]) = mailboxDedupKey(m)}

\* findByDedupKey: the rows delivered before under the key of m.
SameRound(m) ==
  {i \in Items : /\ rows[i].status # "absent" /\ mailboxDedupKey(m) # <<>>
                 /\ mailboxDedupKey(msg[i]) = mailboxDedupKey(m)}

\* resolveReinjectDecision for an existing row in status s.
resolveReinjectDecision(s) == IF s = "dropped" THEN "reuse" ELSE "suppress"

\* reinjectExistingRow: queue the row of item i again, with priority p.
reinjectExistingRow(i, p) ==
  /\ rows' = requeueItem(rows, i)
  /\ IF IsQueued(queue, i) THEN UNCHANGED <<prio, queue>>
     ELSE /\ prio' = [prio EXCEPT ![i] = p]
          /\ queue' \in insertSorted(queue, i, prio')

\* Save a row for the new item i and insert it; the INSERT may throw, which
\* the adapter swallows: the item is then in memory only.
insertNew(i, m) ==
  /\ msg' = Append(msg, m)
  /\ prio' = [prio EXCEPT ![i] = m.prio]
  /\ \/ rows' = save(rows, i, m.prio)
     \/ SaveFaults /\ rows' = rows
  /\ queue' \in insertSorted(queue, i, prio')

\* enqueue: merge, fold, suppress, queue an old row again, or insert.
enqueue(m) ==
  /\ \/ \E i \in MergeTargets(m) :
          /\ \A k, n \in 1..Len(queue) :
               queue[n] = i /\ queue[k] \in MergeTargets(m) => n <= k
          /\ rows' = updateStatus(rows, i, "queued")
          /\ UNCHANGED <<msg, prio, queue>>
     \/ /\ MergeTargets(m) = {} /\ ~Folds(m)
        /\ \/ \E i \in SameRound(m) :
                /\ resolveReinjectDecision(rows[i].status) = "reuse"
                /\ reinjectExistingRow(i, m.prio)
                /\ UNCHANGED msg
           \/ /\ SameRound(m) = {} /\ NextItem \in Items
              /\ insertNew(NextItem, m)
  /\ UNCHANGED <<hand, stage, batch, locks, hbId, served>>

-----------------------------------------------------------------------------
(***************************************************************************)
(* The workers.                                                            *)
(***************************************************************************)
isItemEntityLocked(i) == \E k \in resolveEntityKeys(msg[i]) : locks[k] # NoItem

\* dequeue, on the array q and rows R: the position taken, and the entries
\* before it whose claim was refused, which are removed as well.
Claimed(q, R) ==
  {k \in 1..Len(q) :
     /\ ~isItemEntityLocked(q[k]) /\ claimable(R, q[k])
     /\ \A j \in 1..(k - 1) : isItemEntityLocked(q[j]) \/ ~claimable(R, q[j])}
Refused(q, n) == {k \in 1..(n - 1) : ~isItemEntityLocked(q[k])}

\* Mutant of AfterClaim: the claimed entry itself stays in the array.
AfterClaimKeeps(q, n) == Kept(q, (1..Len(q)) \ Refused(q, n))

AfterClaim(q, n) == Kept(q, (1..Len(q)) \ (Refused(q, n) \union {n}))
OnlyLocked(q) == Kept(q, {k \in 1..Len(q) : isItemEntityLocked(q[k])})

heartbeatTaken(i) == IF msg[i].type = "heartbeat" THEN i ELSE hbId

\* dequeueAsync finds an item for worker w.
dequeue(w) ==
  /\ stage[w] = "idle"
  /\ \E n \in Claimed(queue, rows) :
       /\ rows' = claimItem(rows, queue[n])
       /\ queue' \in AfterClaim(queue, n)
       /\ hand' = [hand EXCEPT ![w] = queue[n]]
       /\ hbId' = heartbeatTaken(queue[n])
  /\ stage' = [stage EXCEPT ![w] = "claimed"]
  /\ UNCHANGED <<msg, prio, batch, locks, served>>

\* dequeueAsync finds nothing to claim, throws out what it may not claim and
\* waits again.
dequeueNothing(w) ==
  /\ stage[w] = "idle" /\ Claimed(queue, rows) = {}
  /\ queue' \in OnlyLocked(queue)
  /\ queue' # queue
  /\ UNCHANGED <<msg, prio, rows, hand, stage, batch, locks, hbId, served>>

\* putBack of the item of worker w, which goes back to waiting.
putBack(w) ==
  /\ queue' \in insertSorted(queue, hand[w], prio)
  /\ rows' = requeueItem(rows, hand[w])
  /\ hand' = [hand EXCEPT ![w] = NoItem]
  /\ stage' = [stage EXCEPT ![w] = "idle"]

\* Mutant of lockEntities: a key held by somebody else is taken over.
lockEntitiesForce(w) ==
  /\ ~Serial /\ stage[w] = "claimed"
  /\ LET keys == lockKeysFor(msg[hand[w]])
     IN locks' = [k \in Keys |-> IF k \in keys THEN hand[w] ELSE locks[k]]
  /\ stage' = [stage EXCEPT ![w] = "working"]
  /\ UNCHANGED <<msg, prio, rows, queue, hand, batch, hbId, served>>

\* A pool worker locks all entities of its item, or none and puts it back.
lockEntities(w) ==
  /\ ~Serial /\ stage[w] = "claimed"
  /\ LET keys == lockKeysFor(msg[hand[w]])
     IN IF \A k \in keys : locks[k] = NoItem
        THEN /\ locks' = [k \in Keys |-> IF k \in keys THEN hand[w] ELSE locks[k]]
             /\ stage' = [stage EXCEPT ![w] = "working"]
             /\ UNCHANGED <<rows, queue, hand>>
        ELSE putBack(w) /\ UNCHANGED locks
  /\ UNCHANGED <<msg, prio, batch, hbId, served>>

\* The worker is done with its item: a pool worker has yet to unlock.
Leave(w) ==
  IF Serial
  THEN /\ hand' = [hand EXCEPT ![w] = NoItem]
       /\ stage' = [stage EXCEPT ![w] = "idle"]
  ELSE stage' = [stage EXCEPT ![w] = "resolved"] /\ UNCHANGED hand

heartbeatDone(S) == IF hbId \in S THEN NoItem ELSE hbId

Serve(i) == IF mailboxDedupKey(msg[i]) = <<>> THEN served ELSE served \union {i}

\* The end of a turn: the item in hand gets status s and leaves one of the
\* arrays Q, then the batch taken along is completed or queued again (t).
EndTurn(w, s, Q, t) ==
  /\ rows' = SettleAll(settle(rows, hand[w], s), batch, t)
  /\ \E q \in Q : queue' \in IF t = "completed" THEN Without(q, batch)
                            ELSE Loaded(q, batch, prio)
  /\ batch' = {}
  /\ Leave(w)

complete(w) ==
  /\ stage[w] = "working"
  /\ EndTurn(w, "completed", RemoveFirstOf(queue, hand[w]), "completed")
  /\ hbId' = heartbeatDone(batch \union {hand[w]})
  /\ served' = Serve(hand[w])
  /\ UNCHANGED <<msg, prio, locks>>

\* Mutant of requeue: the entry is not put into the array.
requeueRowOnly(w) ==
  /\ stage[w] = "working"
  /\ EndTurn(w, "queued", {queue}, "queued")
  /\ hbId' = heartbeatDone(batch \union {hand[w]})
  /\ UNCHANGED <<msg, prio, locks, served>>

\* A turn that timed out queues its batch again; one that went wrong, or that
\* was stopped, completes it.
requeue(w) ==
  /\ stage[w] = "working"
  /\ \E t \in {"queued", "completed"} :
       EndTurn(w, "queued", insertSorted(queue, hand[w], prio), t)
  /\ hbId' = heartbeatDone(batch \union {hand[w]})
  /\ UNCHANGED <<msg, prio, locks, served>>

\* Mutant of drop: a status that MailboxItemStatus does not have.
dropAsFailed(w) ==
  /\ stage[w] = "working"
  /\ EndTurn(w, "failed", RemoveFirstOf(queue, hand[w]), "queued")
  /\ hbId' = heartbeatDone(batch)
  /\ UNCHANGED <<msg, prio, locks, served>>

\* Cancelled, or not stopped by its timeout: the batch is queued again; gone
\* wrong too often, or in front of a user: it is completed.
drop(w) ==
  /\ stage[w] = "working"
  /\ \E t \in {"queued", "completed"} :
       EndTurn(w, "dropped", RemoveFirstOf(queue, hand[w]), t)
  /\ hbId' = heartbeatDone(batch)
  /\ UNCHANGED <<msg, prio, locks, served>>

\* Mutant of deferDequeued: the batch of a preempted turn is forgotten.
deferForgetsBatch(w) ==
  /\ stage[w] = "working"
  /\ rows' = settle(rows, hand[w], "deferred")
  /\ batch' = {} /\ Leave(w)
  /\ UNCHANGED <<msg, prio, queue, locks, hbId, served>>

deferDequeued(w) ==
  /\ stage[w] = "working"
  /\ EndTurn(w, "deferred", {queue}, "queued")
  /\ hbId' = heartbeatDone(batch)
  /\ UNCHANGED <<msg, prio, locks, served>>

\* unlockEntities: free the keys this item holds; the worker waits again.
unlockEntities(w) ==
  /\ stage[w] = "resolved"
  /\ LET keys == lockKeysFor(msg[hand[w]])
     IN locks' = [k \in Keys |->
                    IF k \in keys /\ locks[k] = hand[w] THEN NoItem ELSE locks[k]]
  /\ hand' = [hand EXCEPT ![w] = NoItem]
  /\ stage' = [stage EXCEPT ![w] = "idle"]
  /\ UNCHANGED <<msg, prio, rows, queue, batch, hbId, served>>

-----------------------------------------------------------------------------
(***************************************************************************)
(* The serial loop: before an item is worked on, the queue is tidied and   *)
(* deliberation may choose another one.                                    *)
(***************************************************************************)
\* The turn that resurfaces deferred items: those in S are due (a defer time
\* is not kept: any deferred item may be due).
resurfaceDue(w) ==
  /\ Serial /\ stage[w] = "idle"
  /\ \E S \in SUBSET {i \in Items : rows[i].status = "deferred" /\ ~IsQueued(queue, i)} :
       /\ S # {}
       /\ rows' = SetStatus(rows, S, "queued")
       /\ prio' = [i \in Items |-> IF i \in S THEN rows[i].prio ELSE prio[i]]
       /\ queue' \in Loaded(queue, S, prio')
  /\ UNCHANGED <<msg, hand, stage, batch, locks, hbId, served>>

\* Stale informational items of the array q.
purgeStaleItems(q, R) ==
  {i \in Items : /\ IsQueued(q, i) /\ msg[i].type \in staleTypes
                 /\ ~isNeverPurgeable(msg[i]) /\ R[i].age >= 1}

\* Positions of q that are merged into an earlier one under the same key.
MergedAway(q, key(_)) ==
  {k \in 1..Len(q) : /\ key(msg[q[k]])[2] # None
                     /\ \E j \in 1..(k - 1) : key(msg[q[j]]) = key(msg[q[k]])}
consolidateByEntity(q) == MergedAway(q, GroupKey)

At(q, K) == {q[k] : k \in K}

\* dequeue() in a turn of worker w, which holds an item that was put back: if
\* nothing can be claimed it goes on with the object it has.
TakeHead(w, q, R) ==
  IF Claimed(q, R) = {}
  THEN queue' \in OnlyLocked(q) /\ rows' = R /\ UNCHANGED <<hand, hbId>>
  ELSE \E n \in Claimed(q, R) :
         /\ queue' \in AfterClaim(q, n)
         /\ rows' = claimItem(R, q[n])
         /\ hand' = [hand EXCEPT ![w] = q[n]]
         /\ hbId' = heartbeatTaken(q[n])

\* Several items could come next after item i: the agent has to choose.
needsLLMTriage(q, i) ==
  LET scorable == {j \in Items : IsQueued(q, j) /\ ~isStrictStateItem(msg[j])}
  IN /\ ~isUserMessage(msg[i]) /\ ~isStrictStateItem(msg[i])
     /\ Cardinality(scorable) >= 2 \/ \E j \in scorable : prio[j] <= prio[i]

\* Put the item back, purge, consolidate and take the head, in one turn.
preTriage(w) ==
  /\ Serial /\ stage[w] = "claimed"
  /\ ~isUserMessage(msg[hand[w]]) /\ queue # <<>>
  /\ \E q1 \in insertSorted(queue, hand[w], prio) :
       LET R1 == requeueItem(rows, hand[w])
           purged == purgeStaleItems(q1, R1)
           R2 == SetStatus(R1, purged, "dropped")
       IN \E q2 \in Without(q1, purged) :
            LET M == consolidateByEntity(q2)
            IN \E q3 \in Kept(q2, (1..Len(q2)) \ M) :
                 TakeHead(w, q3, SetStatus(R2, At(q2, M), "merged"))
  /\ stage' = [stage EXCEPT ![w] = IF needsLLMTriage(queue', hand'[w])
                                  THEN "deliberating" ELSE "working"]
  /\ UNCHANGED <<msg, prio, batch, locks, served>>

\* The item in hand is worked on: there is nothing to tidy, or deliberation
\* came to no result.
focus(w) ==
  /\ Serial
  /\ \/ stage[w] = "deliberating"
     \/ stage[w] = "claimed" /\ (isUserMessage(msg[hand[w]]) \/ queue = <<>>)
  /\ stage' = [stage EXCEPT ![w] = "working"]
  /\ UNCHANGED <<msg, prio, rows, queue, hand, batch, locks, hbId, served>>

\* A user's message arrived during deliberation.
abortDeliberation(w) ==
  /\ Serial /\ stage[w] = "deliberating"
  /\ \E k \in 1..Len(queue) : isUserMessage(msg[queue[k]])
  /\ \E q \in insertSorted(queue, hand[w], prio) :
       TakeHead(w, q, requeueItem(rows, hand[w]))
  /\ stage' = [stage EXCEPT ![w] = "working"]
  /\ UNCHANGED <<msg, prio, batch, locks, served>>

\* dequeueById(j) succeeds; if it fails, an entry is thrown out all the same.
Takes(q, R, j) == IsQueued(q, j) /\ claimable(R, j)

\* Item i is chosen instead of h: h is put back, i taken, or else h again.
Chosen(q, R, h, i) ==
  IF i = h THEN {[queue |-> q, rows |-> R, item |-> h]}
  ELSE LET R1 == requeueItem(R, h)
       IN UNION {IF Takes(q1, R1, i)
                 THEN {[queue |-> r, rows |-> claimItem(R1, i), item |-> i] :
                         r \in RemoveFirstOf(q1, i)}
                 ELSE UNION {{[queue |-> r, item |-> h,
                               rows |-> IF Takes(q2, R1, h) THEN claimItem(R1, h) ELSE R1] :
                                r \in RemoveFirstOf(q2, h)} :
                             q2 \in RemoveFirstOf(q1, i)} :
                 q1 \in insertSorted(q, h, prio)}

\* What deliberation lists, besides the item to process: each one once.
Listed(w) == {j \in Items : IsQueued(queue, j)} \union {hand[w]}
Verdicts == {"keep", "complete", "batch", "defer", "drop"}

\* applyDeliberationResult: complete what was handled inline, take item i and
\* the batch, defer and drop.  Protected items are kept, but the item in hand
\* is not in the snapshot that says which are protected.  An item of the
\* batch that is in the hand already, or not queued, is left alone.
Decide(w, i, verdict) ==
  LET h == hand[w]
      Said(v) == {j \in DOMAIN verdict :
                    verdict[j] = v /\ (j = h \/ ~isProtected(msg[j]))}
      C == Said("complete") \ {h}
  IN /\ \E q \in Without(queue, C) :
        \E t \in Chosen(q, SettleAll(rows, C, "completed"), h, i) :
          LET B == {j \in Said("batch") : Takes(t.queue, t.rows, j)}
              D == {j \in Said("defer") : IsQueued(t.queue, j)}
              R == [j \in Items |-> IF j \in B THEN claimItem(t.rows, j)[j] ELSE t.rows[j]]
          IN /\ queue' \in Without(t.queue, Said("batch") \union D \union Said("drop"))
             /\ rows' = SettleAll(SetStatus(R, D, "deferred"), Said("drop"), "dropped")
             /\ hand' = [hand EXCEPT ![w] = t.item]
             /\ batch' = B
     /\ hbId' = heartbeatDone(C)

applyDeliberationResult(w) ==
  /\ Serial /\ stage[w] = "deliberating"
  /\ \E i \in 1..Len(msg) : \E verdict \in [Listed(w) \ {i} -> Verdicts] :
       Decide(w, i, verdict)
  /\ stage' = [stage EXCEPT ![w] = "working"]
  /\ UNCHANGED <<msg, prio, locks, served>>

\* A yield point merges the queued item i into the one being worked on.
merge(w, i) ==
  /\ Serial /\ stage[w] = "working" /\ IsQueued(queue, i)
  /\ rows' = settle(rows, i, "merged")
  /\ queue' \in RemoveFirstOf(queue, i)
  /\ UNCHANGED <<msg, prio, hand, stage, batch, locks, hbId, served>>

\* The loop was stopped while it took item i: enqueue with reuseItemId = i.
\* A row that may not be queued again suppresses the delivery.
reEnqueueOnShutdown(i) ==
  LET E == SameRound(msg[i])
  IN CASE rows[i].status \in Requeueable -> reinjectExistingRow(i, prio[i])
       [] rows[i].status = "absent" /\ E = {} ->
            /\ rows' = save(rows, i, prio[i])
            /\ queue' \in insertSorted(queue, i, prio)
            /\ UNCHANGED prio
       [] rows[i].status = "absent" /\ E # {} ->
            \E e \in E : IF resolveReinjectDecision(rows[e].status) = "reuse"
                        THEN reinjectExistingRow(e, prio[i])
                        ELSE UNCHANGED <<prio, rows, queue>>
       [] OTHER -> UNCHANGED <<prio, rows, queue>>

\* A user's message, and one whose sender waits for the reply, is abandoned.
shutdown(w) ==
  /\ Serial /\ stage[w] = "claimed"
  /\ \/ /\ msg[hand[w]].type \in {"human_chat", "a2a_message"}
        /\ UNCHANGED <<prio, rows, queue>>
     \/ ~isUserMessage(msg[hand[w]]) /\ reEnqueueOnShutdown(hand[w])
  /\ hand' = [hand EXCEPT ![w] = NoItem]
  /\ stage' = [stage EXCEPT ![w] = "idle"]
  /\ UNCHANGED <<msg, batch, locks, hbId, served>>

-----------------------------------------------------------------------------
(***************************************************************************)
(* The mailbox tools and deliberation, on queued items; drops by           *)
(* identifier; time; the operator's cleanup.                               *)
(***************************************************************************)
Memory == <<msg, prio, hand, stage, batch, locks, hbId, served>>

deferItem(i) ==
  /\ IsQueued(queue, i) /\ ~isStrictStateItem(msg[i]) /\ ~isUserMessage(msg[i])
  /\ queue' \in RemoveFirstOf(queue, i)
  /\ rows' = updateStatus(rows, i, "deferred")
  /\ UNCHANGED Memory

dropItem(i) ==
  /\ IsQueued(queue, i) /\ ~isStrictStateItem(msg[i]) /\ ~isUserMessage(msg[i])
  /\ queue' \in RemoveFirstOf(queue, i)
  /\ rows' = settle(rows, i, "dropped")
  /\ UNCHANGED Memory

\* drop(itemId) for an item that may be queued, in a hand, or settled: the
\* HTTP route of the operator, and the agent's tool for an id not queued.
dropById(i) ==
  /\ i \in Droppable /\ i <= Len(msg)
  /\ queue' \in RemoveFirstOf(queue, i)
  /\ rows' = settle(rows, i, "dropped")
  /\ UNCHANGED Memory

updatePriority(i, p) ==
  /\ IsQueued(queue, i) /\ ~isUserMessage(msg[i]) /\ p # prio[i]
  /\ prio' = [prio EXCEPT ![i] = p]
  /\ rows' = IF rows[i].status = "absent" THEN rows
             ELSE [updateStatus(rows, i, "queued") EXCEPT ![i].prio = p]
  /\ \E q \in RemoveFirstOf(queue, i) : queue' \in insertSorted(q, i, prio')
  /\ UNCHANGED <<msg, hand, stage, batch, locks, hbId, served>>

\* A task that is superseded takes its queued status updates with it.
dropStatusUpdatesByTaskId(t) ==
  LET S == {i \in Items : /\ IsQueued(queue, i)
                          /\ msg[i].type = "task_status_update"
                          /\ ~isStrictStateItem(msg[i]) /\ msg[i].ref["task"] = t}
  IN /\ S # {} /\ t # None
     /\ queue' \in Without(queue, S)
     /\ rows' = SetStatus(rows, S, "dropped")
     /\ UNCHANGED Memory

cleanStaleProcessing ==
  /\ rows' = markStaleProcessingAsDropped(rows)
  /\ rows' # rows
  /\ UNCHANGED <<queue, Memory>>

\* The renewal timer of a worker that still owns its row.
renewLease(w) ==
  /\ stage[w] = "working"
  /\ rows[hand[w]].by = "self" /\ rows[hand[w]].status = "processing"
  /\ ~rows[hand[w]].valid
  /\ rows' = [rows EXCEPT ![hand[w]].valid = TRUE]
  /\ UNCHANGED <<queue, Memory>>

\* Age and lease are read on these rows only.
Open == {"queued", "processing", "deferred"}

\* A lease runs out: the process slept through its timer, or it is gone.
LeaseExpires(i) ==
  /\ rows[i].valid /\ rows[i].status \in Open
  /\ rows' = [rows EXCEPT ![i].valid = FALSE]
  /\ UNCHANGED <<queue, Memory>>

\* Hours pass: every open row gets older.
Age ==
  /\ rows' = [i \in Items |-> IF rows[i].status \notin Open \/ rows[i].age >= MaxAge
                              THEN rows[i] ELSE [rows[i] EXCEPT !.age = @ + 1]]
  /\ rows' # rows
  /\ UNCHANGED <<queue, Memory>>

-----------------------------------------------------------------------------
(***************************************************************************)
(* The process is killed and started again, with the rows R left behind:   *)
(* memory is lost, its claims are those of a dead owner, and               *)
(* recoverStaleItems fills the queue.                                      *)
(***************************************************************************)
Orphaned(R) == [i \in Items |-> IF R[i].by = "self" THEN [R[i] EXCEPT !.by = "dead"] ELSE R[i]]

TTL(m) == IF m.type \in staleTypes THEN 0 ELSE 1

\* deduplicateQueue: all heartbeats but the last, then merges by entity.
SpareHeartbeats(q) ==
  {k \in 1..Len(q) : /\ msg[q[k]].type = "heartbeat"
                     /\ \E j \in (k + 1)..Len(q) : msg[q[j]].type = "heartbeat"}

recoverStaleItems(R) ==
  LET R1 == markStaleProcessingAsDropped(Orphaned(R))
      waiting == {i \in Items : R1[i].status = "queued"}
      expired == {i \in waiting : R1[i].age > TTL(msg[i])}
      R2 == SetStatus(R1, expired, "dropped")
  IN /\ prio' = [i \in Items |-> R2[i].prio]
     /\ \E q \in Loaded(<<>>, waiting \ expired, prio') :
          LET H == SpareHeartbeats(q)
              M == MergedAway(q, MergeKey)
          IN /\ rows' = SetStatus(SetStatus(R2, At(q, H), "dropped"), At(q, M), "merged")
             /\ queue' \in Kept(q, (1..Len(q)) \ (H \union M))

Restart(R) ==
  /\ recoverStaleItems(R)
  /\ hand' = [w \in Workers |-> NoItem]
  /\ stage' = [w \in Workers |-> "idle"]
  /\ batch' = {}
  /\ locks' = [k \in Keys |-> NoItem]
  /\ hbId' = NoItem
  /\ UNCHANGED msg

\* Killed between two turns.
Crash == Restart(rows) /\ UNCHANGED served

\* Killed while it settled an item: updateStatus is written, releaseClaim not.
CrashWhileSettling(w, s) ==
  /\ stage[w] = "working"
  /\ Restart(updateStatus(rows, hand[w], s))
  /\ served' = IF s = "completed" THEN Serve(hand[w]) ELSE served

Priorities == {m.prio : m \in Messages}
Tasks == {m.ref["task"] : m \in Messages}

Next ==
  \/ \E m \in Messages : enqueue(m)
  \/ \E w \in Workers :
       \/ dequeue(w) \/ dequeueNothing(w)
       \/ lockEntities(w) \/ unlockEntities(w)
       \/ complete(w) \/ requeue(w) \/ drop(w) \/ deferDequeued(w)
       \/ resurfaceDue(w) \/ preTriage(w) \/ focus(w) \/ abortDeliberation(w)
       \/ applyDeliberationResult(w) \/ shutdown(w) \/ renewLease(w)
       \/ \E i \in Items : merge(w, i)
       \/ \E s \in {"queued", "completed", "deferred", "dropped"} :
            CrashWhileSettling(w, s)
  \/ \E i \in Items : \/ deferItem(i) \/ dropItem(i) \/ dropById(i)
                       \/ LeaseExpires(i)
                       \/ \E p \in Priorities : updatePriority(i, p)
  \/ \E t \in Tasks : dropStatusUpdatesByTaskId(t)
  \/ cleanStaleProcessing \/ Age \/ Crash

Spec == Init /\ [][Next]_vars

-----------------------------------------------------------------------------
\* Type correctness of the memory and of the table.
TypeOK ==
  /\ msg \in Seq(Messages) /\ Len(msg) <= MaxItems
  /\ prio \in [Items -> Nat]
  /\ rows \in [Items -> Row]
  /\ queue \in Seq(Items)
  /\ hand \in [Workers -> Items \union {NoItem}]
  /\ stage \in [Workers -> {"idle", "claimed", "deliberating", "working", "resolved"}]
  /\ batch \subseteq Items
  /\ locks \in [Keys -> Items \union {NoItem}]
  /\ hbId \in Items \union {NoItem}
  /\ served \subseteq Items

Held(i) == i \in batch \/ \E w \in Workers : hand[w] = i /\ stage[w] # "resolved"

\* What the table calls queued or processing is really going to be handled:
\* a queued row is in the array or in the hands of a worker, a row in
\* processing is in the hands of a worker.  Two exceptions the code has: a
\* row whose owner was killed while settling it keeps the claim of a dead
\* process, and a stopped loop abandons the messages whose sender waits.
NoItemLost ==
  \A i \in Items :
    /\ rows[i].status = "queued" =>
         IsQueued(queue, i) \/ Held(i) \/ rows[i].by = "dead"
    /\ rows[i].status = "processing" =>
         Held(i) \/ msg[i].type \in {"human_chat", "a2a_message"}

\* Two workers never work on one entity (task, requirement, conversation,
\* session) at a time, nor on one item.
EntityExclusion ==
  \A v, w \in Workers :
    v # w /\ stage[v] = "working" /\ stage[w] = "working" =>
      lockKeysFor(msg[hand[v]]) \intersect lockKeysFor(msg[hand[w]]) = {}

\* The array stays in the order of priority that dequeue relies on, and no
\* merge has to move its survivor.
QueueSorted ==
  \A k, n \in 1..Len(queue) : k < n => prio[queue[k]] <= prio[queue[n]]

\* An item is in the array at most once: requeue, putBack and the recovery
\* insert without looking.
NoDoubleEntry ==
  \A k, n \in 1..Len(queue) : queue[k] = queue[n] => k = n

\* A review round that some worker has completed is not worked on again,
\* whatever is delivered twice, requeued, crashed or recovered.
RoundServedOnce ==
  \A w \in Workers, i \in served :
    stage[w] = "working" =>
      mailboxDedupKey(msg[hand[w]]) # mailboxDedupKey(msg[i])

\* Strict items (executions, reviews, owed actions) that wait or are left
\* behind by a crash are not dropped, deferred or merged behind the back of
\* the worker that holds them, unless they outlive their time to live or are
\* dropped by identifier; the yield points of the serial loop alone merge one.
StrictKept ==
  [][\A i \in Items :
       /\ rows[i].status \in {"queued", "processing"}
       /\ isStrictStateItem(msg[i]) /\ rows[i].age <= TTL(msg[i]) /\ i \notin Droppable
       /\ ~\E w \in Workers : hand[w] = i /\ stage[w] = "working"
       => /\ rows'[i].status \notin {"dropped", "deferred"}
          /\ rows'[i].status = "merged" =>
               \E w \in Workers : Serial /\ stage[w] = "working"]_vars

=============================================================================
