--------------------------- MODULE MailboxProofs ---------------------------
(***************************************************************************)
(* What the mailbox promises, for every set of workers and of messages,    *)
(* every number of items, with drops by identifier, INSERTs that fail,     *)
(* leases that run out and crashes, unless a theorem says otherwise.       *)
(*                                                                         *)
(* Exclusion.  EntityExclusion is not inductive: a worker may start only   *)
(* because the keys of everybody who works are taken, and they stay taken  *)
(* because unlockEntities frees a key only for the item that holds it.  So *)
(* MailboxInv says who holds the keys (KeysTaken) and that two workers     *)
(* past lockEntities have different items (ItemsDiffer), which in turn     *)
(* needs that whatever is queued, held or stored was created (Created).    *)
(*                                                                         *)
(* Places.  PlaceInv ties the array, the hands and the batch to the table: *)
(* what the row of an item says depends on where the item is (RowSafe),    *)
(* and an item that cannot be handed out twice is in one place (OnePlace,  *)
(* OneHand).  No item is lost and no entry is double because of it.        *)
(*                                                                         *)
(* From PlaceInv and one step: strict rows are not taken away and no row   *)
(* is deleted (Stays), the array stays in order (Ordered), and what was    *)
(* completed stays over (Over), so that a round is served once (Rounds).   *)
(***************************************************************************)
EXTENDS Mailbox, TLAPS, FiniteSetTheorems, SequenceTheorems

\* The items created so far.
Made == 1..Len(msg)

\* Tables in which only the first n items have a row.
Tables(n) == {R \in [Items -> Row] : \A i \in Items : R[i].status # "absent" => i <= n}

\* What is queued, stored or in a hand was created.
Created ==
  /\ queue \in Seq(Made)
  /\ rows \in Tables(Len(msg))
  /\ batch \subseteq Made
  /\ \A w \in Workers : stage[w] # "idle" => hand[w] \in Made

\* The stages between lockEntities and unlockEntities.
PastLock(w) == stage[w] \in {"working", "resolved"}

\* A pool worker past lockEntities holds every key of its item.
KeysTaken ==
  ~Serial => \A w \in Workers : PastLock(w) =>
               \A k \in lockKeysFor(msg[hand[w]]) : locks[k] = hand[w]

\* Two pool workers past lockEntities have different items.
ItemsDiffer ==
  ~Serial => \A v, w \in Workers :
               v # w /\ PastLock(v) /\ PastLock(w) => hand[v] # hand[w]

MailboxInv == TypeOK /\ Created /\ KeysTaken /\ ItemsDiffer

-----------------------------------------------------------------------------
(***************************************************************************)
(* The queue operators leave arrays of the same elements.                  *)
(***************************************************************************)
\* The size of a set of positions.
LEMMA PositionsFinite ==
  ASSUME NEW n \in Nat, NEW K \in SUBSET (1..n)
  PROVE  IsFiniteSet(K) /\ Cardinality(K) \in Nat
<1>1. IsFiniteSet(1..n)
  BY FS_Interval
<1>2. IsFiniteSet(K)
  BY <1>1, FS_Subset
<1> QED
  BY <1>2, FS_CardinalityType

\* Kept leaves elements of the array.
LEMMA KeptType ==
  ASSUME NEW S, NEW q \in Seq(S), NEW K \in SUBSET (1..Len(q)), NEW r \in Kept(q, K)
  PROVE  r \in Seq(S)
<1>1. Cardinality(K) \in Nat
  BY PositionsFinite, LenProperties
<1>2. PICK f \in [1..Cardinality(K) -> K] : r = [n \in 1..Cardinality(K) |-> q[f[n]]]
  BY DEF Kept
<1>3. \A k \in K : q[k] \in S
  BY ElementOfSeq
<1>4. r \in [1..Cardinality(K) -> S]
  BY <1>2, <1>3
<1> QED
  BY <1>1, <1>4, IsASeq

\* Without leaves elements of the array.
LEMMA WithoutType ==
  ASSUME NEW S, NEW q \in Seq(S), NEW T, NEW r \in Without(q, T)
  PROVE  r \in Seq(S)
BY KeptType DEF Without

\* RemoveFirstOf leaves elements of the array.
LEMMA RemoveFirstType ==
  ASSUME NEW S, NEW q \in Seq(S), NEW i, NEW r \in RemoveFirstOf(q, i)
  PROVE  r \in Seq(S)
BY KeptType DEF RemoveFirstOf

\* insertSorted adds one element.
LEMMA InsertType ==
  ASSUME NEW S, NEW q \in Seq(S), NEW i \in S, NEW p, NEW r \in insertSorted(q, i, p)
  PROVE  r \in Seq(S)
<1>1. PICK k \in 1..(Len(q) + 1) : r = InsertAt(q, k, i)
  BY DEF insertSorted
<1>2. Len(q) \in Nat
  BY LenProperties
<1>3. \A n \in 1..Len(q) : q[n] \in S
  BY ElementOfSeq
<1>4. ASSUME NEW n \in 1..(Len(q) + 1)
      PROVE  (IF n < k THEN q[n] ELSE IF n = k THEN i ELSE q[n - 1]) \in S
  <2>1. CASE n < k
    BY <1>2, <1>3, <2>1
  <2>2. CASE n > k
    <3>1. n - 1 \in 1..Len(q)
      BY <1>2, <2>2
    <3> QED
      BY <1>2, <1>3, <2>2, <3>1
  <2>3. CASE n = k
    BY <1>2, <2>3
  <2> QED
    BY <1>2, <2>1, <2>2, <2>3
<1>5. r \in [1..(Len(q) + 1) -> S]
  BY <1>1, <1>4 DEF InsertAt
<1> QED
  BY <1>2, <1>5, IsASeq

\* Loaded adds elements of S.
LEMMA LoadedType ==
  ASSUME NEW T, NEW q \in Seq(T), NEW S \in SUBSET T, NEW p, NEW r \in Loaded(q, S, p),
         IsFiniteSet(S)
  PROVE  r \in Seq(T)
<1> DEFINE n == Len(q) + Cardinality(S)
<1>1. n \in Nat
  BY LenProperties, FS_CardinalityType
<1>2. r \in [1..n -> Items] /\ q \in Without(r, S)
  BY DEF Loaded
<1>3. r \in Seq(Items) /\ Len(r) = n
  BY <1>1, <1>2, IsASeq
<1> DEFINE K == {k \in 1..Len(r) : r[k] \notin S}
<1>4. Cardinality(K) \in Nat
  BY <1>1, <1>3, PositionsFinite
<1>5. PICK f \in [1..Cardinality(K) -> K] :
        /\ q = [m \in 1..Cardinality(K) |-> r[f[m]]]
        /\ \A k \in K : \E m \in 1..Cardinality(K) : f[m] = k
  BY <1>2 DEF Without, Kept
<1>6. Len(q) = Cardinality(K)
  BY <1>4, <1>5
<1>7. ASSUME NEW k \in 1..n PROVE r[k] \in T
  <2>1. CASE r[k] \in S
    BY <2>1
  <2>2. CASE r[k] \notin S
    <3>1. PICK m \in 1..Cardinality(K) : f[m] = k
      BY <1>3, <1>5, <2>2
    <3>2. q[m] = r[k]
      BY <1>5, <3>1
    <3>3. q[m] \in T
      BY <1>6, ElementOfSeq
    <3> QED
      BY <3>2, <3>3
  <2> QED
    BY <2>1, <2>2
<1>8. r \in [1..n -> T]
  BY <1>2, <1>7
<1> QED
  BY <1>1, <1>8, IsASeq

-----------------------------------------------------------------------------
(***************************************************************************)
(* The statements on the table keep it a table of the same items.          *)
(***************************************************************************)
\* A row rewritten in place.
LEMMA RowWrite ==
  ASSUME NEW n \in Nat, NEW R \in Tables(n), NEW i \in Items, NEW row \in Row,
         row.status # "absent" => i <= n
  PROVE  [R EXCEPT ![i] = row] \in Tables(n)
BY DEF Tables

\* updateStatus writes a status.
LEMMA UpdateStatusType ==
  ASSUME NEW n \in Nat, NEW R \in Tables(n), NEW i \in Items,
         NEW s \in Status \ {"absent"}
  PROVE  updateStatus(R, i, s) \in Tables(n)
BY DEF Tables, updateStatus, Row

\* releaseClaim clears a claim.
LEMMA ReleaseClaimType ==
  ASSUME NEW n \in Nat, NEW R \in Tables(n), NEW i \in Items
  PROVE  releaseClaim(R, i) \in Tables(n)
BY DEF Tables, releaseClaim, Row

\* A priority may be rewritten.
LEMMA PriorityType ==
  ASSUME NEW n \in Nat, NEW R \in Tables(n), NEW i \in Items, NEW p \in Nat
  PROVE  [R EXCEPT ![i].prio = p] \in Tables(n)
BY DEF Tables, Row

\* A lease may be renewed or run out.
LEMMA LeaseType ==
  ASSUME NEW n \in Nat, NEW R \in Tables(n), NEW i \in Items, NEW b \in BOOLEAN
  PROVE  [R EXCEPT ![i].valid = b] \in Tables(n)
BY DEF Tables, Row

\* settle is updateStatus and releaseClaim.
LEMMA SettleType ==
  ASSUME NEW n \in Nat, NEW R \in Tables(n), NEW i \in Items,
         NEW s \in Status \ {"absent"}
  PROVE  settle(R, i, s) \in Tables(n)
BY UpdateStatusType, ReleaseClaimType DEF settle

\* requeueItem queues an existing row again.
LEMMA RequeueItemType ==
  ASSUME NEW n \in Nat, NEW R \in Tables(n), NEW i \in Items
  PROVE  requeueItem(R, i) \in Tables(n)
BY DEF Tables, requeueItem, Requeueable, Waiting, Row, Status

\* claimItem claims an existing row.
LEMMA ClaimItemType ==
  ASSUME NEW n \in Nat, NEW R \in Tables(n), NEW i \in Items
  PROVE  claimItem(R, i) \in Tables(n)
BY DEF Tables, claimItem, Row, Status

\* save writes the row of a created item.
LEMMA SaveType ==
  ASSUME NEW n \in Nat, NEW R \in Tables(n), NEW i \in Items, i <= n, NEW p \in Nat
  PROVE  save(R, i, p) \in Tables(n)
BY DEF Tables, save, Waiting, Row, Status

\* A table of n items is one of n + 1 items.
LEMMA TableGrows ==
  ASSUME NEW n \in Nat, NEW R \in Tables(n)
  PROVE  R \in Tables(n + 1)
BY DEF Tables, Items

\* SettleAll settles several items.
LEMMA SettleAllType ==
  ASSUME NEW n \in Nat, NEW R \in Tables(n), NEW S, NEW s \in Status \ {"absent"}
  PROVE  SettleAll(R, S, s) \in Tables(n)
<1>1. \A i \in Items : settle(R, i, s) \in Tables(n)
  BY SettleType
<1>2. ASSUME NEW i \in Items
      PROVE  /\ settle(R, i, s)[i] \in Row
             /\ settle(R, i, s)[i].status # "absent" => i <= n
  BY <1>1 DEF Tables
<1> QED
  BY <1>2 DEF SettleAll, Tables

\* SetStatus writes several rows.
LEMMA SetStatusType ==
  ASSUME NEW n \in Nat, NEW R \in Tables(n), NEW S, NEW s \in Status \ {"absent"}
  PROVE  SetStatus(R, S, s) \in Tables(n)
<1>1. \A i \in Items : updateStatus(R, i, s) \in Tables(n)
  BY UpdateStatusType
<1>2. ASSUME NEW i \in Items
      PROVE  /\ updateStatus(R, i, s)[i] \in Row
             /\ updateStatus(R, i, s)[i].status # "absent" => i <= n
  BY <1>1 DEF Tables
<1> QED
  BY <1>2 DEF SetStatus, Tables

\* markStaleProcessingAsDropped writes the orphaned rows.
LEMMA MarkStaleType ==
  ASSUME NEW n \in Nat, NEW R \in Tables(n)
  PROVE  markStaleProcessingAsDropped(R) \in Tables(n)
<1>1. ASSUME NEW i \in Items
      PROVE  /\ requeueItem(R, i)[i] \in Row
             /\ requeueItem(R, i)[i].status # "absent" => i <= n
  BY RequeueItemType DEF Tables
<1>2. ASSUME NEW i \in Items, Orphan(R[i])
      PROVE  [R[i] EXCEPT !.status = "dropped"] \in Row /\ i <= n
  BY <1>2 DEF Tables, Orphan, Row, Status
<1>3. ASSUME NEW i \in Items
      PROVE  /\ markStaleProcessingAsDropped(R)[i] \in Row
             /\ markStaleProcessingAsDropped(R)[i].status # "absent" => i <= n
  <2>1. R[i] \in Row /\ (R[i].status # "absent" => i <= n)
    BY DEF Tables
  <2>2. CASE ~Orphan(R[i])
    BY <2>1, <2>2 DEF markStaleProcessingAsDropped
  <2>3. CASE Orphan(R[i]) /\ isStrictStateItem(msg[i])
    BY <1>1, <2>3 DEF markStaleProcessingAsDropped
  <2>4. CASE Orphan(R[i]) /\ ~isStrictStateItem(msg[i])
    BY <1>2, <2>4 DEF markStaleProcessingAsDropped
  <2> QED
    BY <2>2, <2>3, <2>4
<1> QED
  BY <1>3 DEF markStaleProcessingAsDropped, Tables

\* The rows a dead process leaves behind.
LEMMA OrphanedType ==
  ASSUME NEW n \in Nat, NEW R \in Tables(n)
  PROVE  Orphaned(R) \in Tables(n)
<1>1. ASSUME NEW i \in Items
      PROVE  /\ Orphaned(R)[i] \in Row
             /\ Orphaned(R)[i].status # "absent" => i <= n
  BY DEF Orphaned, Tables, Row
<1> QED
  BY <1>1 DEF Orphaned, Tables

-----------------------------------------------------------------------------
(***************************************************************************)
(* Types.  An action that creates no item leaves well-typed memory if each *)
(* part it writes is: the three lemmas below say what is left to show when *)
(* it moves no worker, one worker or all of them.                          *)
(***************************************************************************)
Stages == {"idle", "claimed", "deliberating", "working", "resolved"}

\* The created items are items, and the length of msg is a number.
LEMMA MadeItems ==
  ASSUME TypeOK
  PROVE  Len(msg) \in Nat /\ Len(msg) <= MaxItems /\ Made \subseteq Items
BY MailboxAssumption DEF TypeOK, Made, Items

\* No worker moves.
LEMMA TableFrame ==
  ASSUME TypeOK, Created, UNCHANGED <<msg, hand, stage, batch, locks>>,
         prio' \in [Items -> Nat], rows' \in Tables(Len(msg)), queue' \in Seq(Made),
         hbId' \in Items \union {NoItem}, served' \subseteq Items
  PROVE  TypeOK' /\ Created'
<1>1. Made' = Made /\ Len(msg') = Len(msg)
  BY DEF Made
<1>2. queue' \in Seq(Items)
  BY MadeItems, SeqMonotonic
<1>3. rows' \in [Items -> Row]
  BY DEF Tables
<1>4. TypeOK'
  BY <1>2, <1>3 DEF TypeOK
<1>5. Created'
  BY <1>1 DEF Created
<1> QED
  BY <1>4, <1>5

\* Worker w moves to stage s with item i.
LEMMA WorkerFrame ==
  ASSUME TypeOK, Created, UNCHANGED msg, NEW w \in Workers,
         NEW i \in Items \union {NoItem}, NEW s \in Stages,
         hand' = [hand EXCEPT ![w] = i], stage' = [stage EXCEPT ![w] = s],
         s # "idle" => i \in Made,
         prio' \in [Items -> Nat], rows' \in Tables(Len(msg)), queue' \in Seq(Made),
         batch' \subseteq Made, locks' \in [Keys -> Items \union {NoItem}],
         hbId' \in Items \union {NoItem}, served' \subseteq Items
  PROVE  TypeOK' /\ Created'
<1>1. Made' = Made /\ Len(msg') = Len(msg)
  BY DEF Made
<1>2. queue' \in Seq(Items)
  BY MadeItems, SeqMonotonic
<1>3. rows' \in [Items -> Row]
  BY DEF Tables
<1>4. hand' \in [Workers -> Items \union {NoItem}] /\ stage' \in [Workers -> Stages]
  BY DEF TypeOK, Stages
<1>5. TypeOK'
  BY <1>2, <1>3, <1>4, MadeItems DEF TypeOK, Stages
<1>6. \A v \in Workers : stage'[v] # "idle" => hand'[v] \in Made
  BY DEF TypeOK, Created
<1>7. Created'
  BY <1>1, <1>6 DEF Created
<1> QED
  BY <1>5, <1>7

\* A worker that leaves its item.
LEMMA LeaveFrame ==
  ASSUME TypeOK, Created, UNCHANGED <<msg, prio, locks>>, NEW w \in Workers,
         stage[w] = "working", Leave(w),
         rows' \in Tables(Len(msg)), queue' \in Seq(Made), batch' \subseteq Made,
         hbId' \in Items \union {NoItem}, served' \subseteq Items
  PROVE  TypeOK' /\ Created'
<1>1. prio' \in [Items -> Nat] /\ locks' \in [Keys -> Items \union {NoItem}]
  BY DEF TypeOK
<1>2. hand[w] \in Made /\ hand[w] \in Items \union {NoItem}
  BY DEF Created, TypeOK
<1>3. CASE Serial
  <2>1. hand' = [hand EXCEPT ![w] = NoItem] /\ stage' = [stage EXCEPT ![w] = "idle"]
    BY <1>3 DEF Leave
  <2> QED
    BY <1>1, <2>1, WorkerFrame DEF Stages
<1>4. CASE ~Serial
  <2>1. hand' = [hand EXCEPT ![w] = hand[w]] /\ stage' = [stage EXCEPT ![w] = "resolved"]
    BY <1>4 DEF Leave, TypeOK
  <2> QED
    BY <1>1, <1>2, <2>1, WorkerFrame DEF Stages
<1> QED
  BY <1>3, <1>4

\* What an action starts from.
LEMMA StartTypes ==
  ASSUME TypeOK, Created
  PROVE  /\ Len(msg) \in Nat /\ Made \subseteq Items /\ NoItem \notin Items
         /\ prio \in [Items -> Nat] /\ rows \in Tables(Len(msg)) /\ queue \in Seq(Made)
         /\ batch \subseteq Made /\ locks \in [Keys -> Items \union {NoItem}]
         /\ hbId \in Items \union {NoItem} /\ served \subseteq Items
         /\ \A k \in 1..Len(queue) : queue[k] \in Made
         /\ \A w \in Workers : stage[w] # "idle" => hand[w] \in Made /\ hand[w] \in Items
         /\ \A i \in Items : IsQueued(queue, i) => i \in Made
<1>1. Made \subseteq Items
  BY MadeItems
<1>2. \A k \in 1..Len(queue) : queue[k] \in Made
  BY ElementOfSeq DEF Created
<1>3. \A i \in Items : IsQueued(queue, i) => i \in Made
  BY <1>2 DEF IsQueued
<1> QED
  BY <1>1, <1>2, <1>3, MadeItems DEF TypeOK, Created, NoItem, Items

\* An item that is queued again.
LEMMA ReinjectTypes ==
  ASSUME TypeOK, Created, NEW i \in Made, NEW p \in Nat, reinjectExistingRow(i, p)
  PROVE  /\ prio' \in [Items -> Nat] /\ rows' \in Tables(Len(msg)) /\ queue' \in Seq(Made)
<1> USE StartTypes
<1>1. rows' \in Tables(Len(msg))
  BY RequeueItemType DEF reinjectExistingRow
<1>2. prio' \in [Items -> Nat]
  BY DEF reinjectExistingRow
<1>3. queue' \in Seq(Made)
  BY InsertType DEF reinjectExistingRow
<1> QED
  BY <1>1, <1>2, <1>3

\* A new item.
LEMMA InsertNewTypes ==
  ASSUME TypeOK, Created, NEW m \in Messages, NextItem \in Items, insertNew(NextItem, m),
         UNCHANGED <<hand, stage, batch, locks, hbId, served>>
  PROVE  TypeOK' /\ Created'
<1> DEFINE n == Len(msg)
<1>1. n \in Nat /\ n + 1 <= MaxItems /\ n + 1 \in Items
  BY MadeItems, MailboxAssumption DEF Items, NextItem
<1>2. msg' = Append(msg, m) /\ msg' \in Seq(Messages) /\ Len(msg') = n + 1
  BY DEF insertNew, TypeOK
<1>3. Made' = 1..(n + 1) /\ Made \subseteq Made' /\ Made' \subseteq Items
  <2>1. Made = 1..n /\ Made' = 1..(n + 1)
    BY <1>2 DEF Made
  <2>2. MaxItems \in Nat
    BY MailboxAssumption
  <2> QED
    BY <1>1, <2>1, <2>2 DEF Items
<1>4. m.prio \in Nat
  BY MailboxAssumption DEF MessageType
<1>5. prio' \in [Items -> Nat]
  BY <1>1, <1>4 DEF insertNew, TypeOK, NextItem
<1>6. rows' \in Tables(n + 1)
  <2>1. rows \in Tables(n + 1)
    BY <1>1, TableGrows DEF Created
  <2>2. save(rows, n + 1, m.prio) \in Tables(n + 1)
    BY <1>1, <1>4, <2>1, SaveType
  <2> QED
    BY <2>1, <2>2 DEF insertNew, NextItem
<1>7. queue' \in Seq(Made')
  <2>1. queue \in Seq(Made')
    BY <1>3, SeqMonotonic DEF Created
  <2>2. n + 1 \in Made'
    BY <1>1, <1>3
  <2> QED
    BY <2>1, <2>2, InsertType DEF insertNew, NextItem
<1>8. queue' \in Seq(Items)
  BY <1>3, <1>7, SeqMonotonic
<1>9. rows' \in [Items -> Row]
  BY <1>6 DEF Tables
<1>10. TypeOK'
  BY <1>1, <1>2, <1>5, <1>8, <1>9 DEF TypeOK
<1>11. Created'
  BY <1>2, <1>3, <1>6, <1>7 DEF Created
<1> QED
  BY <1>10, <1>11

\* enqueue.
LEMMA EnqueueTypes ==
  ASSUME TypeOK, Created, NEW m \in Messages, enqueue(m)
  PROVE  TypeOK' /\ Created'
<1> USE StartTypes
<1>1. UNCHANGED <<hand, stage, batch, locks, hbId, served>>
  BY DEF enqueue
<1>2. CASE \E i \in Items : rows' = updateStatus(rows, i, "queued") /\ UNCHANGED <<msg, prio, queue>>
  <2>1. rows' \in Tables(Len(msg))
    BY <1>2, UpdateStatusType DEF Status
  <2> QED
    BY <1>1, <1>2, <2>1, TableFrame
<1>3. CASE \E i \in SameRound(m) : reinjectExistingRow(i, m.prio) /\ UNCHANGED msg
  <2>1. PICK i \in SameRound(m) : reinjectExistingRow(i, m.prio) /\ UNCHANGED msg
    BY <1>3
  <2>2. i \in Items /\ rows[i].status # "absent"
    BY DEF SameRound
  <2>3. i <= Len(msg)
    BY <2>2 DEF Tables
  <2>4. i \in Made
    BY <2>2, <2>3 DEF Made, Items
  <2>5. m.prio \in Nat
    BY MailboxAssumption DEF MessageType
  <2>6. prio' \in [Items -> Nat] /\ rows' \in Tables(Len(msg)) /\ queue' \in Seq(Made)
    BY <2>1, <2>4, <2>5, ReinjectTypes
  <2> QED
    BY <1>1, <2>1, <2>6, TableFrame
<1>4. CASE NextItem \in Items /\ insertNew(NextItem, m)
  BY <1>1, <1>4, InsertNewTypes
<1> QED
  BY <1>2, <1>3, <1>4 DEF enqueue, MergeTargets

\* dequeue and dequeueNothing.
LEMMA DequeueTypes ==
  ASSUME TypeOK, Created, NEW w \in Workers, dequeue(w) \/ dequeueNothing(w)
  PROVE  TypeOK' /\ Created'
<1> USE StartTypes
<1>1. CASE dequeue(w)
  <2>1. PICK n \in 1..Len(queue) :
          /\ rows' = claimItem(rows, queue[n])
          /\ queue' \in AfterClaim(queue, n)
          /\ hand' = [hand EXCEPT ![w] = queue[n]]
          /\ hbId' = heartbeatTaken(queue[n])
    BY <1>1 DEF dequeue, Claimed
  <2>2. stage' = [stage EXCEPT ![w] = "claimed"] /\ UNCHANGED <<msg, prio, batch, locks, served>>
    BY <1>1 DEF dequeue
  <2>3. queue[n] \in Made /\ queue[n] \in Items
    OBVIOUS
  <2>4. rows' \in Tables(Len(msg))
    BY <2>1, <2>3, ClaimItemType
  <2>5. queue' \in Seq(Made)
    BY <2>1, KeptType DEF AfterClaim
  <2>6. hbId' \in Items \union {NoItem}
    BY <2>1, <2>3 DEF heartbeatTaken
  <2> QED
    BY <2>1, <2>2, <2>3, <2>4, <2>5, <2>6, WorkerFrame DEF Stages
<1>2. CASE dequeueNothing(w)
  <2>1. queue' \in Seq(Made)
    BY <1>2, KeptType DEF dequeueNothing, OnlyLocked
  <2> QED
    BY <1>2, <2>1, TableFrame DEF dequeueNothing
<1> QED
  BY <1>1, <1>2

\* lockEntities and unlockEntities.
LEMMA LockTypes ==
  ASSUME TypeOK, Created, NEW w \in Workers, lockEntities(w) \/ unlockEntities(w)
  PROVE  TypeOK' /\ Created'
<1> USE StartTypes
<1>1. hand[w] \in Made /\ hand[w] \in Items
  BY DEF lockEntities, unlockEntities
<1>2. UNCHANGED <<msg, prio, batch, hbId, served>>
  BY DEF lockEntities, unlockEntities
<1>3. CASE unlockEntities(w)
  <2>1. locks' \in [Keys -> Items \union {NoItem}]
    BY <1>3 DEF unlockEntities
  <2>2. /\ rows' = rows /\ queue' = queue
        /\ hand' = [hand EXCEPT ![w] = NoItem] /\ stage' = [stage EXCEPT ![w] = "idle"]
    BY <1>3 DEF unlockEntities
  <2> QED
    BY <1>2, <2>1, <2>2, WorkerFrame DEF Stages
<1>4. CASE lockEntities(w) /\ \A k \in lockKeysFor(msg[hand[w]]) : locks[k] = NoItem
  <2>1. locks' \in [Keys -> Items \union {NoItem}]
    BY <1>1, <1>4 DEF lockEntities
  <2>2. rows' = rows /\ queue' = queue /\ hand' = hand
    BY <1>4 DEF lockEntities
  <2>3. hand' = [hand EXCEPT ![w] = hand[w]] /\ stage' = [stage EXCEPT ![w] = "working"]
    BY <1>4, <2>2 DEF lockEntities, TypeOK
  <2> QED
    BY <1>1, <1>2, <2>1, <2>2, <2>3, WorkerFrame DEF Stages
<1>5. CASE lockEntities(w) /\ ~\A k \in lockKeysFor(msg[hand[w]]) : locks[k] = NoItem
  <2>1. putBack(w) /\ UNCHANGED locks
    BY <1>5 DEF lockEntities
  <2>2. queue' \in Seq(Made)
    BY <1>1, <2>1, InsertType DEF putBack
  <2>3. rows' \in Tables(Len(msg))
    BY <1>1, <2>1, RequeueItemType DEF putBack
  <2>4. hand' = [hand EXCEPT ![w] = NoItem] /\ stage' = [stage EXCEPT ![w] = "idle"]
    BY <2>1 DEF putBack
  <2> QED
    BY <1>2, <2>1, <2>2, <2>3, <2>4, WorkerFrame DEF Stages
<1> QED
  BY <1>3, <1>4, <1>5

\* The end of a turn, whose batch gets status t.
LEMMA EndTurnTypes ==
  ASSUME TypeOK, Created, NEW w \in Workers, stage[w] = "working",
         NEW s \in Status \ {"absent"}, NEW t \in Status \ {"absent"},
         NEW Q, \A q \in Q : q \in Seq(Made), EndTurn(w, s, Q, t),
         UNCHANGED <<msg, prio, locks>>,
         hbId' \in Items \union {NoItem}, served' \subseteq Items
  PROVE  TypeOK' /\ Created'
<1> USE StartTypes
<1>1. hand[w] \in Made /\ hand[w] \in Items
  OBVIOUS
<1>2. settle(rows, hand[w], s) \in Tables(Len(msg))
  BY <1>1, SettleType
<1>3. rows' \in Tables(Len(msg))
  BY <1>2, SettleAllType DEF EndTurn
<1>4. PICK q \in Q : queue' \in IF t = "completed" THEN Without(q, batch)
                               ELSE Loaded(q, batch, prio)
  BY DEF EndTurn
<1>5. q \in Seq(Made)
  OBVIOUS
<1>6. IsFiniteSet(batch)
  BY PositionsFinite DEF Made
<1>7. queue' \in Seq(Made)
  BY <1>4, <1>5, <1>6, WithoutType, LoadedType
<1>8. batch' = {} /\ Leave(w)
  BY DEF EndTurn
<1> QED
  BY <1>3, <1>7, <1>8, LeaveFrame

\* complete, requeue, drop and deferDequeued: how a worker leaves its item.
LEMMA SettleTypes ==
  ASSUME TypeOK, Created, NEW w \in Workers,
         complete(w) \/ requeue(w) \/ drop(w) \/ deferDequeued(w)
  PROVE  TypeOK' /\ Created'
<1> USE StartTypes
<1>1. stage[w] = "working" /\ UNCHANGED <<msg, prio, locks>>
  BY DEF complete, requeue, drop, deferDequeued
<1>2. hand[w] \in Made /\ hand[w] \in Items
  BY <1>1
<1>3. hbId' \in Items \union {NoItem}
  BY DEF complete, requeue, drop, deferDequeued, heartbeatDone
<1>4. served' \subseteq Items
  BY <1>2 DEF complete, requeue, drop, deferDequeued, Serve
<1>5. \A q \in RemoveFirstOf(queue, hand[w]) : q \in Seq(Made)
  BY RemoveFirstType
<1>6. \A q \in insertSorted(queue, hand[w], prio) : q \in Seq(Made)
  BY <1>2, InsertType
<1>7. \E s \in Status \ {"absent"}, t \in Status \ {"absent"} :
        \/ EndTurn(w, s, RemoveFirstOf(queue, hand[w]), t)
        \/ EndTurn(w, s, insertSorted(queue, hand[w], prio), t)
        \/ EndTurn(w, s, {queue}, t)
  BY DEF complete, requeue, drop, deferDequeued, Status
<1>8. PICK s \in Status \ {"absent"}, t \in Status \ {"absent"} :
        \/ EndTurn(w, s, RemoveFirstOf(queue, hand[w]), t)
        \/ EndTurn(w, s, insertSorted(queue, hand[w], prio), t)
        \/ EndTurn(w, s, {queue}, t)
  BY <1>7
<1>9. PICK Q : EndTurn(w, s, Q, t) /\ \A q \in Q : q \in Seq(Made)
  BY <1>5, <1>6, <1>8
<1> QED
  BY <1>1, <1>3, <1>4, <1>9, EndTurnTypes

\* resurfaceDue.
LEMMA ResurfaceTypes ==
  ASSUME TypeOK, Created, NEW w \in Workers, resurfaceDue(w)
  PROVE  TypeOK' /\ Created'
<1> USE StartTypes
<1>1. PICK S \in SUBSET {i \in Items : rows[i].status = "deferred"} :
        /\ rows' = SetStatus(rows, S, "queued")
        /\ prio' = [i \in Items |-> IF i \in S THEN rows[i].prio ELSE prio[i]]
        /\ queue' \in Loaded(queue, S, prio')
  BY DEF resurfaceDue
<1>2. UNCHANGED <<msg, hand, stage, batch, locks, hbId, served>>
  BY DEF resurfaceDue
<1>3. S \subseteq Made
  BY DEF Tables, Made, Items
<1>4. IsFiniteSet(S)
  BY <1>3, PositionsFinite DEF Made
<1>5. rows' \in Tables(Len(msg))
  BY <1>1, SetStatusType DEF Status
<1>6. prio' \in [Items -> Nat]
  <2>1. \A i \in Items : rows[i].prio \in Nat
    BY DEF Tables, Row
  <2> QED
    BY <1>1, <2>1
<1>7. queue' \in Seq(Made)
  BY <1>1, <1>3, <1>4, LoadedType
<1> QED
  BY <1>2, <1>5, <1>6, <1>7, TableFrame

\* TakeHead, by a worker that goes on to stage s.
LEMMA TakeHeadTypes ==
  ASSUME TypeOK, Created, NEW w \in Workers, stage[w] # "idle",
         NEW q \in Seq(Made), NEW R \in Tables(Len(msg)), TakeHead(w, q, R),
         NEW s \in Stages, stage' = [stage EXCEPT ![w] = s],
         UNCHANGED <<msg, prio, batch, locks, served>>
  PROVE  TypeOK' /\ Created'
<1> USE StartTypes
<1>1. CASE Claimed(q, R) = {}
  <2>1. queue' \in OnlyLocked(q) /\ rows' = R /\ UNCHANGED <<hand, hbId>>
    BY <1>1 DEF TakeHead
  <2>2. queue' \in Seq(Made)
    BY <2>1, KeptType DEF OnlyLocked
  <2>3. hand' = [hand EXCEPT ![w] = hand[w]]
    BY <2>1 DEF TypeOK
  <2>4. hand[w] \in Made /\ hand[w] \in Items
    OBVIOUS
  <2> QED
    BY <2>1, <2>2, <2>3, <2>4, WorkerFrame
<1>2. CASE Claimed(q, R) # {}
  <2>1. PICK n \in 1..Len(q) :
          /\ queue' \in AfterClaim(q, n)
          /\ rows' = claimItem(R, q[n])
          /\ hand' = [hand EXCEPT ![w] = q[n]]
          /\ hbId' = heartbeatTaken(q[n])
    BY <1>2 DEF TakeHead, Claimed
  <2>2. q[n] \in Made /\ q[n] \in Items
    BY ElementOfSeq
  <2>3. rows' \in Tables(Len(msg))
    BY <2>1, <2>2, ClaimItemType
  <2>4. queue' \in Seq(Made)
    BY <2>1, KeptType DEF AfterClaim
  <2>5. hbId' \in Items \union {NoItem}
    BY <2>1, <2>2 DEF heartbeatTaken
  <2> QED
    BY <2>1, <2>2, <2>3, <2>4, <2>5, WorkerFrame
<1> QED
  BY <1>1, <1>2

\* preTriage and abortDeliberation.
LEMMA PreTriageTypes ==
  ASSUME TypeOK, Created, NEW w \in Workers, preTriage(w) \/ abortDeliberation(w)
  PROVE  TypeOK' /\ Created'
<1> USE StartTypes
<1> DEFINE R1 == requeueItem(rows, hand[w])
           Purged(q) == purgeStaleItems(q, R1)
           R2(q) == SetStatus(R1, Purged(q), "dropped")
           R3(q, r) == SetStatus(R2(q), At(r, consolidateByEntity(r)), "merged")
<1>1. stage[w] # "idle" /\ hand[w] \in Made /\ hand[w] \in Items
  BY DEF preTriage, abortDeliberation
<1>2. UNCHANGED <<msg, prio, batch, locks, served>>
  BY DEF preTriage, abortDeliberation
<1>3. R1 \in Tables(Len(msg))
  BY <1>1, RequeueItemType
<1>4. CASE abortDeliberation(w)
  <2>1. PICK q \in insertSorted(queue, hand[w], prio) : TakeHead(w, q, R1)
    BY <1>4 DEF abortDeliberation
  <2>2. q \in Seq(Made)
    BY <1>1, InsertType
  <2>3. stage' = [stage EXCEPT ![w] = "working"] /\ "working" \in Stages
    BY <1>4 DEF abortDeliberation, Stages
  <2> HIDE DEF R1
  <2> QED
    BY <1>1, <1>2, <1>3, <2>1, <2>2, <2>3, TakeHeadTypes
<1>5. CASE preTriage(w)
  <2>1. PICK q1 \in insertSorted(queue, hand[w], prio) :
          \E q2 \in Without(q1, Purged(q1)) :
          \E q3 \in Kept(q2, (1..Len(q2)) \ consolidateByEntity(q2)) :
            TakeHead(w, q3, R3(q1, q2))
    BY <1>5 DEF preTriage
  <2>2. PICK q2 \in Without(q1, Purged(q1)) :
          \E q3 \in Kept(q2, (1..Len(q2)) \ consolidateByEntity(q2)) :
            TakeHead(w, q3, R3(q1, q2))
    BY <2>1
  <2>3. PICK q3 \in Kept(q2, (1..Len(q2)) \ consolidateByEntity(q2)) :
          TakeHead(w, q3, R3(q1, q2))
    BY <2>2
  <2>4. q1 \in Seq(Made)
    BY <1>1, InsertType
  <2>5. q2 \in Seq(Made)
    BY <2>4, WithoutType
  <2>6. q3 \in Seq(Made)
    BY <2>5, KeptType
  <2>7. R2(q1) \in Tables(Len(msg))
    BY <1>3, SetStatusType DEF Status
  <2>8. R3(q1, q2) \in Tables(Len(msg))
    BY <2>7, SetStatusType DEF Status
  <2>9. PICK s \in Stages : stage' = [stage EXCEPT ![w] = s]
    <3>1. "deliberating" \in Stages /\ "working" \in Stages
      BY DEF Stages
    <3> QED
      BY <1>5, <3>1 DEF preTriage
  <2> HIDE DEF R3
  <2> QED
    BY <1>1, <1>2, <2>3, <2>6, <2>8, <2>9, TakeHeadTypes
<1> QED
  BY <1>4, <1>5

\* What Chosen leaves.
LEMMA ChosenType ==
  ASSUME TypeOK, Created, NEW q \in Seq(Made), NEW R \in Tables(Len(msg)),
         NEW h \in Made, NEW i \in Made, NEW t \in Chosen(q, R, h, i)
  PROVE  t.queue \in Seq(Made) /\ t.rows \in Tables(Len(msg)) /\ t.item \in Made
<1> USE StartTypes
<1> DEFINE R1 == requeueItem(R, h)
<1>1. R1 \in Tables(Len(msg))
  BY RequeueItemType
<1>2. claimItem(R1, h) \in Tables(Len(msg)) /\ claimItem(R1, i) \in Tables(Len(msg))
  BY <1>1, ClaimItemType
<1>3. CASE i = h
  BY <1>3 DEF Chosen
<1>4. CASE i # h
  <2>1. PICK q1 \in insertSorted(q, h, prio) :
          \/ t \in {[queue |-> r, rows |-> claimItem(R1, i), item |-> i] :
                      r \in RemoveFirstOf(q1, i)}
          \/ t \in UNION {{[queue |-> r, item |-> h,
                            rows |-> IF Takes(q2, R1, h) THEN claimItem(R1, h) ELSE R1] :
                             r \in RemoveFirstOf(q2, h)} :
                          q2 \in RemoveFirstOf(q1, i)}
    BY <1>4 DEF Chosen
  <2>2. q1 \in Seq(Made)
    BY InsertType
  <2> HIDE DEF R1
  <2>3. CASE t \in {[queue |-> r, rows |-> claimItem(R1, i), item |-> i] :
                      r \in RemoveFirstOf(q1, i)}
    BY <1>2, <2>2, <2>3, RemoveFirstType
  <2>4. CASE t \in UNION {{[queue |-> r, item |-> h,
                            rows |-> IF Takes(q2, R1, h) THEN claimItem(R1, h) ELSE R1] :
                             r \in RemoveFirstOf(q2, h)} :
                          q2 \in RemoveFirstOf(q1, i)}
    <3>1. PICK q2 \in RemoveFirstOf(q1, i) :
            \E r \in RemoveFirstOf(q2, h) :
              t = [queue |-> r, item |-> h,
                   rows |-> IF Takes(q2, R1, h) THEN claimItem(R1, h) ELSE R1]
      BY <2>4
    <3>2. q2 \in Seq(Made)
      BY <2>2, RemoveFirstType
    <3> QED
      BY <1>1, <1>2, <3>1, <3>2, RemoveFirstType
  <2> QED
    BY <2>1, <2>3, <2>4
<1> QED
  BY <1>3, <1>4

\* applyDeliberationResult.
LEMMA DeliberationTypes ==
  ASSUME TypeOK, Created, NEW w \in Workers, applyDeliberationResult(w)
  PROVE  TypeOK' /\ Created'
<1> USE StartTypes
<1>1. stage[w] # "idle" /\ hand[w] \in Made /\ hand[w] \in Items
  BY DEF applyDeliberationResult
<1>2. stage' = [stage EXCEPT ![w] = "working"] /\ UNCHANGED <<msg, prio, locks, served>>
  BY DEF applyDeliberationResult
<1>3. PICK i \in Made : \E verdict \in [Listed(w) \ {i} -> Verdicts] : Decide(w, i, verdict)
  BY DEF applyDeliberationResult, Made
<1>4. PICK verdict \in [Listed(w) \ {i} -> Verdicts] : Decide(w, i, verdict)
  BY <1>3
<1> DEFINE h == hand[w]
           Said(v) == {j \in DOMAIN verdict :
                         verdict[j] = v /\ (j = h \/ ~isProtected(msg[j]))}
           C == Said("complete") \ {h}
           B(t) == {j \in Said("batch") : Takes(t.queue, t.rows, j)}
           D(t) == {j \in Said("defer") : IsQueued(t.queue, j)}
           R(t) == [j \in Items |-> IF j \in B(t) THEN claimItem(t.rows, j)[j] ELSE t.rows[j]]
<1>5. hbId' \in Items \union {NoItem}
  BY <1>4 DEF Decide, heartbeatDone
<1>6. PICK q \in Without(queue, C) : \E t \in Chosen(q, SettleAll(rows, C, "completed"), h, i) :
        /\ queue' \in Without(t.queue, Said("batch") \union D(t) \union Said("drop"))
        /\ rows' = SettleAll(SetStatus(R(t), D(t), "deferred"), Said("drop"), "dropped")
        /\ hand' = [hand EXCEPT ![w] = t.item]
        /\ batch' = B(t)
  BY <1>4 DEF Decide
<1>7. q \in Seq(Made)
  BY WithoutType
<1>8. SettleAll(rows, C, "completed") \in Tables(Len(msg))
  BY SettleAllType DEF Status
<1>9. PICK t \in Chosen(q, SettleAll(rows, C, "completed"), h, i) :
        /\ queue' \in Without(t.queue, Said("batch") \union D(t) \union Said("drop"))
        /\ rows' = SettleAll(SetStatus(R(t), D(t), "deferred"), Said("drop"), "dropped")
        /\ hand' = [hand EXCEPT ![w] = t.item]
        /\ batch' = B(t)
  BY <1>6
<1>10. t.queue \in Seq(Made) /\ t.rows \in Tables(Len(msg)) /\ t.item \in Made
  BY <1>1, <1>7, <1>8, ChosenType
<1>11. Listed(w) \subseteq Made
  BY <1>1 DEF Listed
<1>12. B(t) \subseteq Made
  BY <1>11
<1>13. R(t) \in Tables(Len(msg))
  <2>1. \A j \in Items : claimItem(t.rows, j) \in Tables(Len(msg))
    BY <1>10, ClaimItemType
  <2>2. ASSUME NEW j \in Items
        PROVE  R(t)[j] \in Row /\ (R(t)[j].status # "absent" => j <= Len(msg))
    BY <1>10, <2>1 DEF Tables
  <2> QED
    BY <2>2 DEF Tables
<1> HIDE DEF R, B, D, Said
<1>14. SetStatus(R(t), D(t), "deferred") \in Tables(Len(msg))
  BY <1>13, SetStatusType DEF Status
<1>15. rows' \in Tables(Len(msg))
  BY <1>9, <1>14, SettleAllType DEF Status
<1>16. queue' \in Seq(Made)
  BY <1>9, <1>10, WithoutType
<1> QED
  BY <1>2, <1>5, <1>9, <1>10, <1>12, <1>15, <1>16, WorkerFrame DEF Stages

\* focus and merge.
LEMMA SerialTypes ==
  ASSUME TypeOK, Created, NEW w \in Workers, NEW i \in Items, focus(w) \/ merge(w, i)
  PROVE  TypeOK' /\ Created'
<1> USE StartTypes
<1>1. CASE focus(w)
  <2>1. hand[w] \in Made /\ hand[w] \in Items
    BY <1>1 DEF focus
  <2>2. /\ hand' = [hand EXCEPT ![w] = hand[w]] /\ stage' = [stage EXCEPT ![w] = "working"]
        /\ UNCHANGED <<msg, prio, rows, queue, batch, locks, hbId, served>>
    BY <1>1 DEF focus, TypeOK
  <2> QED
    BY <2>1, <2>2, WorkerFrame DEF Stages
<1>2. CASE merge(w, i)
  <2>1. rows' \in Tables(Len(msg))
    BY <1>2, SettleType DEF merge, Status
  <2>2. queue' \in Seq(Made)
    BY <1>2, RemoveFirstType DEF merge
  <2> QED
    BY <1>2, <2>1, <2>2, TableFrame DEF merge
<1> QED
  BY <1>1, <1>2

\* shutdown.
LEMMA ShutdownTypes ==
  ASSUME TypeOK, Created, NEW w \in Workers, shutdown(w)
  PROVE  TypeOK' /\ Created'
<1> USE StartTypes
<1> DEFINE i == hand[w]
<1>1. i \in Made /\ i \in Items
  BY DEF shutdown
<1>2. /\ hand' = [hand EXCEPT ![w] = NoItem] /\ stage' = [stage EXCEPT ![w] = "idle"]
      /\ UNCHANGED <<msg, batch, locks, hbId, served>>
  BY DEF shutdown
<1>3. prio[i] \in Nat
  BY <1>1
<1>4. \/ UNCHANGED <<prio, rows, queue>>
      \/ \E e \in Made : reinjectExistingRow(e, prio[i])
      \/ /\ rows' = save(rows, i, prio[i]) /\ UNCHANGED prio
         /\ queue' \in insertSorted(queue, i, prio)
  <2>1. SameRound(msg[i]) \subseteq Made
    BY DEF SameRound, Tables, Made, Items
  <2> QED
    BY <1>1, <2>1 DEF shutdown, reEnqueueOnShutdown
<1>5. prio' \in [Items -> Nat] /\ rows' \in Tables(Len(msg)) /\ queue' \in Seq(Made)
  <2>1. CASE UNCHANGED <<prio, rows, queue>>
    BY <2>1
  <2>2. CASE \E e \in Made : reinjectExistingRow(e, prio[i])
    BY <1>3, <2>2, ReinjectTypes
  <2>3. CASE /\ rows' = save(rows, i, prio[i]) /\ UNCHANGED prio
             /\ queue' \in insertSorted(queue, i, prio)
    <3>1. i <= Len(msg)
      BY <1>1 DEF Made
    <3>2. rows' \in Tables(Len(msg))
      BY <1>1, <1>3, <2>3, <3>1, SaveType
    <3> QED
      BY <1>1, <2>3, <3>2, InsertType
  <2> QED
    BY <1>4, <2>1, <2>2, <2>3
<1> QED
  BY <1>2, <1>5, WorkerFrame DEF Stages

\* deferItem, dropItem, dropById and updatePriority.
LEMMA ToolTypes ==
  ASSUME TypeOK, Created, NEW i \in Items, NEW p \in Nat,
         deferItem(i) \/ dropItem(i) \/ dropById(i) \/ updatePriority(i, p)
  PROVE  TypeOK' /\ Created'
<1> USE StartTypes
<1>1. UNCHANGED <<msg, hand, stage, batch, locks, hbId, served>>
  BY DEF deferItem, dropItem, dropById, updatePriority, Memory
<1>2. CASE deferItem(i) \/ dropItem(i) \/ dropById(i)
  <2>1. rows' \in Tables(Len(msg))
    BY <1>2, UpdateStatusType, SettleType DEF deferItem, dropItem, dropById, Status
  <2>2. queue' \in Seq(Made)
    BY <1>2, RemoveFirstType DEF deferItem, dropItem, dropById
  <2>3. prio' = prio
    BY <1>2 DEF deferItem, dropItem, dropById, Memory
  <2> QED
    BY <1>1, <2>1, <2>2, <2>3, TableFrame
<1>3. CASE updatePriority(i, p)
  <2>1. rows' \in Tables(Len(msg))
    <3> DEFINE R == updateStatus(rows, i, "queued")
    <3>1. R \in Tables(Len(msg))
      BY UpdateStatusType DEF Status
    <3>2. rows' = rows \/ rows' = [R EXCEPT ![i].prio = p]
      BY <1>3 DEF updatePriority
    <3> HIDE DEF R
    <3>3. [R EXCEPT ![i].prio = p] \in Tables(Len(msg))
      BY <3>1, PriorityType
    <3> QED
      BY <3>2, <3>3
  <2>2. prio' \in [Items -> Nat]
    BY <1>3 DEF updatePriority
  <2>3. i \in Made
    BY <1>3 DEF updatePriority
  <2>4. PICK q \in RemoveFirstOf(queue, i) : queue' \in insertSorted(q, i, prio')
    BY <1>3 DEF updatePriority
  <2>5. q \in Seq(Made)
    BY RemoveFirstType
  <2>6. queue' \in Seq(Made)
    BY <2>3, <2>4, <2>5, InsertType
  <2> QED
    BY <1>1, <2>1, <2>2, <2>6, TableFrame
<1> QED
  BY <1>2, <1>3

\* The steps that rewrite rows only, and dropStatusUpdatesByTaskId.
LEMMA TimeTypes ==
  ASSUME TypeOK, Created, NEW w \in Workers, NEW i \in Items, NEW t,
         \/ dropStatusUpdatesByTaskId(t) \/ cleanStaleProcessing
         \/ renewLease(w) \/ LeaseExpires(i) \/ Age
  PROVE  TypeOK' /\ Created'
<1> USE StartTypes
<1>1. UNCHANGED <<msg, prio, hand, stage, batch, locks, hbId, served>>
  BY DEF dropStatusUpdatesByTaskId, cleanStaleProcessing, renewLease, LeaseExpires, Age, Memory
<1>2. queue' \in Seq(Made)
  BY WithoutType DEF dropStatusUpdatesByTaskId, cleanStaleProcessing, renewLease,
                     LeaseExpires, Age, Memory
<1>3. rows' \in Tables(Len(msg))
  <2>1. CASE dropStatusUpdatesByTaskId(t)
    BY <2>1, SetStatusType DEF dropStatusUpdatesByTaskId, Status
  <2>2. CASE cleanStaleProcessing
    BY <2>2, MarkStaleType DEF cleanStaleProcessing
  <2>3. CASE renewLease(w) \/ LeaseExpires(i)
    <3>1. CASE renewLease(w)
      <4>1. hand[w] \in Items /\ rows' = [rows EXCEPT ![hand[w]].valid = TRUE]
        BY <3>1 DEF renewLease
      <4> QED
        BY <4>1, LeaseType
    <3>2. CASE LeaseExpires(i)
      <4>1. rows' = [rows EXCEPT ![i].valid = FALSE]
        BY <3>2 DEF LeaseExpires
      <4> QED
        BY <4>1, LeaseType
    <3> QED
      BY <2>3, <3>1, <3>2
  <2>4. CASE Age
    <3>1. ASSUME NEW j \in Items
          PROVE  rows'[j] \in Row /\ (rows'[j].status # "absent" => j <= Len(msg))
      <4>1. rows[j] \in Row /\ (rows[j].status # "absent" => j <= Len(msg))
        BY DEF Tables
      <4>2. CASE rows[j].status \notin Open \/ rows[j].age >= MaxAge
        BY <2>4, <4>1, <4>2 DEF Age
      <4>3. CASE ~(rows[j].status \notin Open \/ rows[j].age >= MaxAge)
        <5>1. rows'[j] = [rows[j] EXCEPT !.age = rows[j].age + 1]
          BY <2>4, <4>3 DEF Age
        <5>2. rows[j].age + 1 \in 0..2
          BY <4>1, <4>3, MailboxAssumption DEF Row
        <5> QED
          BY <4>1, <5>1, <5>2 DEF Row
      <4> QED
        BY <4>2, <4>3
    <3> QED
      BY <2>4, <3>1 DEF Age, Tables
  <2> QED
    BY <2>1, <2>2, <2>3, <2>4
<1> QED
  BY <1>1, <1>2, <1>3, TableFrame

\* The process is started again.
LEMMA RestartTypes ==
  ASSUME TypeOK, Created, NEW R \in Tables(Len(msg)), Restart(R), served' \subseteq Items
  PROVE  TypeOK' /\ Created'
<1> USE StartTypes
<1> DEFINE R1 == markStaleProcessingAsDropped(Orphaned(R))
           waiting == {i \in Items : R1[i].status = "queued"}
           expired == {i \in waiting : R1[i].age > TTL(msg[i])}
           R2 == SetStatus(R1, expired, "dropped")
<1>1. R1 \in Tables(Len(msg))
  BY OrphanedType, MarkStaleType
<1>2. R2 \in Tables(Len(msg))
  BY <1>1, SetStatusType DEF Status
<1>3. waiting \ expired \subseteq Made
  BY <1>1 DEF Tables, Made, Items
<1>4. IsFiniteSet(waiting \ expired)
  BY <1>3, PositionsFinite DEF Made
<1>5. prio' = [i \in Items |-> R2[i].prio]
  BY DEF Restart, recoverStaleItems
<1>6. PICK q \in Loaded(<<>>, waiting \ expired, prio') :
        LET H == SpareHeartbeats(q)
            M == MergedAway(q, MergeKey)
        IN /\ rows' = SetStatus(SetStatus(R2, At(q, H), "dropped"), At(q, M), "merged")
           /\ queue' \in Kept(q, (1..Len(q)) \ (H \union M))
  BY DEF Restart, recoverStaleItems
<1>7. /\ hand' = [v \in Workers |-> NoItem] /\ stage' = [v \in Workers |-> "idle"]
      /\ batch' = {} /\ locks' = [k \in Keys |-> NoItem] /\ hbId' = NoItem /\ UNCHANGED msg
  BY DEF Restart
<1> HIDE DEF R1, R2, waiting, expired
<1>8. q \in Seq(Made)
  BY <1>3, <1>4, LoadedType, EmptySeq
<1>9. queue' \in Seq(Made)
  BY <1>6, <1>8, KeptType
<1>10. rows' \in Tables(Len(msg))
  <2>1. SetStatus(R2, At(q, SpareHeartbeats(q)), "dropped") \in Tables(Len(msg))
    BY <1>2, SetStatusType DEF Status
  <2> QED
    BY <1>6, <2>1, SetStatusType DEF Status
<1>11. prio' \in [Items -> Nat]
  <2>1. \A i \in Items : R2[i].prio \in Nat
    BY <1>2 DEF Tables, Row
  <2> QED
    BY <1>5, <2>1
<1>12. Made' = Made /\ Len(msg') = Len(msg)
  BY <1>7 DEF Made
<1>13. queue' \in Seq(Items) /\ rows' \in [Items -> Row]
  BY <1>9, <1>10, SeqMonotonic DEF Tables
<1>14. TypeOK'
  BY <1>7, <1>11, <1>13 DEF TypeOK
<1>15. Created'
  BY <1>7, <1>9, <1>10, <1>12 DEF Created
<1> QED
  BY <1>14, <1>15

\* The process is killed.
LEMMA CrashTypes ==
  ASSUME TypeOK, Created, NEW w \in Workers,
         NEW s \in {"queued", "completed", "deferred", "dropped"},
         Crash \/ CrashWhileSettling(w, s)
  PROVE  TypeOK' /\ Created'
<1> USE StartTypes
<1>1. CASE Crash
  BY <1>1, RestartTypes DEF Crash
<1>2. CASE CrashWhileSettling(w, s)
  <2>1. hand[w] \in Items
    BY <1>2 DEF CrashWhileSettling
  <2>2. updateStatus(rows, hand[w], s) \in Tables(Len(msg))
    BY <2>1, UpdateStatusType DEF Status
  <2>3. served' \subseteq Items
    BY <1>2, <2>1 DEF CrashWhileSettling, Serve
  <2> QED
    BY <1>2, <2>2, <2>3, RestartTypes DEF CrashWhileSettling
<1> QED
  BY <1>1, <1>2

\* Every step of the mailbox keeps the types.
LEMMA StepTypes ==
  ASSUME TypeOK, Created, [Next]_vars
  PROVE  TypeOK' /\ Created'
<1>1. CASE UNCHANGED vars
  BY <1>1 DEF vars, TypeOK, Created, Made, Tables
<1>2. CASE \E m \in Messages : enqueue(m)
  BY <1>2, EnqueueTypes
<1>3. ASSUME NEW w \in Workers,
             \/ dequeue(w) \/ dequeueNothing(w)
             \/ lockEntities(w) \/ unlockEntities(w)
             \/ complete(w) \/ requeue(w) \/ drop(w) \/ deferDequeued(w)
             \/ resurfaceDue(w) \/ preTriage(w) \/ abortDeliberation(w)
             \/ applyDeliberationResult(w) \/ shutdown(w)
      PROVE  TypeOK' /\ Created'
  BY <1>3, DequeueTypes, LockTypes, SettleTypes, ResurfaceTypes, PreTriageTypes,
     DeliberationTypes, ShutdownTypes
<1>4. ASSUME NEW w \in Workers, NEW i \in Items, merge(w, i)
      PROVE  TypeOK' /\ Created'
  BY <1>4, SerialTypes
<1>5. ASSUME NEW w \in Workers, focus(w)
      PROVE  TypeOK' /\ Created'
  <2>1. hand[w] \in Items
    BY <1>5, StartTypes DEF focus
  <2> QED
    BY <1>5, <2>1, SerialTypes
<1>6. ASSUME NEW w \in Workers, renewLease(w)
      PROVE  TypeOK' /\ Created'
  <2>1. hand[w] \in Items
    BY <1>6, StartTypes DEF renewLease
  <2> QED
    BY <1>6, <2>1, TimeTypes
<1>7. ASSUME NEW w \in Workers, NEW s \in {"queued", "completed", "deferred", "dropped"},
             Crash \/ CrashWhileSettling(w, s)
      PROVE  TypeOK' /\ Created'
  BY <1>7, CrashTypes
<1>8. ASSUME NEW i \in Items, deferItem(i) \/ dropItem(i) \/ dropById(i)
      PROVE  TypeOK' /\ Created'
  BY <1>8, ToolTypes
<1>9. ASSUME NEW i \in Items, NEW p \in Priorities, updatePriority(i, p)
      PROVE  TypeOK' /\ Created'
  <2>1. p \in Nat
    BY MailboxAssumption DEF Priorities, MessageType
  <2> QED
    BY <1>9, <2>1, ToolTypes
<1>10. ASSUME NEW i \in Items, LeaseExpires(i)
       PROVE  TypeOK' /\ Created'
  BY <1>10, MailboxAssumption, TimeTypes
<1>11. ASSUME NEW t, dropStatusUpdatesByTaskId(t)
       PROVE  TypeOK' /\ Created'
  <2>1. PICK i \in Items : TRUE
    BY <1>11 DEF dropStatusUpdatesByTaskId
  <2> QED
    BY <1>11, <2>1, MailboxAssumption, TimeTypes
<1>12. ASSUME cleanStaleProcessing \/ Age
       PROVE  TypeOK' /\ Created'
  <2>1. PICK i \in Items : TRUE
    BY <1>12 DEF cleanStaleProcessing, Age, markStaleProcessingAsDropped, TypeOK
  <2> QED
    BY <1>12, <2>1, MailboxAssumption, TimeTypes
<1>13. CASE Crash
  BY <1>7, <1>13, MailboxAssumption
<1> QED
  BY <1>1, <1>2, <1>3, <1>4, <1>5, <1>6, <1>7, <1>8, <1>9, <1>10, <1>11, <1>12, <1>13 DEF Next

-----------------------------------------------------------------------------
(***************************************************************************)
(* Locks.                                                                  *)
(***************************************************************************)
\* An item is about something, and all it locks are keys.
LEMMA KeysOfItem ==
  ASSUME TypeOK, NEW i \in Made
  PROVE  lockKeysFor(msg[i]) # {} /\ lockKeysFor(msg[i]) \subseteq Keys
<1>1. msg[i] \in Messages
  BY ElementOfSeq DEF TypeOK, Made
<1>2. resolveEntityKeys(msg[i]) # {}
  BY DEF resolveEntityKeys
<1> QED
  BY <1>1, <1>2 DEF lockKeysFor, Keys

\* Steps in which nobody gets past lockEntities and nobody unlocks: workers
\* that are past it were there before, with the same item.
LEMMA NobodyLocks ==
  ASSUME TypeOK, Created, KeysTaken, ItemsDiffer, UNCHANGED locks,
         \A i \in Made : msg'[i] = msg[i],
         ~Serial => \A w \in Workers : PastLock(w)' => PastLock(w) /\ hand'[w] = hand[w]
  PROVE  KeysTaken' /\ ItemsDiffer'
<1>1. Serial' = Serial
  BY DEF Serial
<1>2. ASSUME ~Serial, NEW w \in Workers, PastLock(w)'
      PROVE  hand'[w] = hand[w] /\ PastLock(w) /\ hand[w] \in Made /\ msg'[hand[w]] = msg[hand[w]]
  BY <1>2 DEF Created, PastLock
<1>3. KeysTaken'
  <2>1. SUFFICES ASSUME ~Serial, NEW w \in Workers, PastLock(w)',
                        NEW k \in lockKeysFor(msg'[hand'[w]])
                 PROVE  locks'[k] = hand'[w]
    BY <1>1 DEF KeysTaken
  <2>2. hand'[w] = hand[w] /\ PastLock(w) /\ msg'[hand'[w]] = msg[hand[w]]
    BY <1>2, <2>1
  <2> QED
    BY <2>1, <2>2 DEF KeysTaken
<1>4. ItemsDiffer'
  BY <1>1, <1>2 DEF ItemsDiffer
<1> QED
  BY <1>3, <1>4

\* lockEntities: the keys were free, so nobody past it shares one.
LEMMA LockKeepsTaken ==
  ASSUME TypeOK, Created, KeysTaken, ItemsDiffer, NEW w \in Workers, lockEntities(w)
  PROVE  KeysTaken' /\ ItemsDiffer'
<1> DEFINE keys == lockKeysFor(msg[hand[w]])
<1>1. ~Serial /\ Serial' = Serial /\ msg' = msg /\ stage[w] = "claimed"
  BY DEF lockEntities, Serial
<1>2. hand[w] \in Made
  BY <1>1 DEF Created
<1>3. CASE \A k \in keys : locks[k] = NoItem
  <2>1. /\ locks' = [k \in Keys |-> IF k \in keys THEN hand[w] ELSE locks[k]]
        /\ stage' = [stage EXCEPT ![w] = "working"] /\ hand' = hand
    BY <1>3 DEF lockEntities
  <2>2. keys # {} /\ keys \subseteq Keys
    BY <1>2, KeysOfItem
  <2>3. ASSUME NEW v \in Workers, v # w, PastLock(v)'
        PROVE  /\ PastLock(v) /\ hand[v] \in Made /\ hand[v] # NoItem
               /\ \A k \in lockKeysFor(msg[hand[v]]) :
                    locks[k] = hand[v] /\ k \in Keys /\ k \notin keys
               /\ hand[v] # hand[w]
    <3>1. PastLock(v) /\ hand[v] \in Made
      BY <2>1, <2>3 DEF PastLock, Created, TypeOK
    <3>2. hand[v] # NoItem
      BY <3>1 DEF Made, NoItem
    <3>3. \A k \in lockKeysFor(msg[hand[v]]) : locks[k] = hand[v]
      BY <1>1, <3>1 DEF KeysTaken
    <3>4. \A k \in lockKeysFor(msg[hand[v]]) : k \in Keys /\ k \notin keys
      BY <1>3, <3>1, <3>2, <3>3, KeysOfItem
    <3>5. hand[v] # hand[w]
      BY <2>2, <3>4
    <3> QED
      BY <3>1, <3>2, <3>3, <3>4, <3>5
  <2>4. \A k \in keys : locks'[k] = hand[w]
    BY <2>1, <2>2
  <2>5. KeysTaken'
    <3>1. SUFFICES ASSUME NEW v \in Workers, PastLock(v)', NEW k \in lockKeysFor(msg[hand[v]])
                   PROVE  locks'[k] = hand[v]
      BY <1>1, <2>1 DEF KeysTaken
    <3>2. CASE v = w
      BY <2>4, <3>2
    <3>3. CASE v # w
      <4>1. locks[k] = hand[v] /\ k \in Keys /\ k \notin keys
        BY <2>3, <3>1, <3>3
      <4> QED
        BY <2>1, <4>1
    <3> QED
      BY <3>2, <3>3
  <2>6. ItemsDiffer'
    <3>1. SUFFICES ASSUME NEW u \in Workers, NEW v \in Workers, u # v,
                          PastLock(u)', PastLock(v)'
                   PROVE  hand[u] # hand[v]
      BY <1>1, <2>1 DEF ItemsDiffer
    <3>2. CASE u = w
      BY <2>3, <3>1, <3>2
    <3>3. CASE v = w
      BY <2>3, <3>1, <3>3
    <3>4. CASE u # w /\ v # w
      BY <1>1, <2>3, <3>1, <3>4 DEF ItemsDiffer
    <3> QED
      BY <3>2, <3>3, <3>4
  <2> QED
    BY <2>5, <2>6
<1>4. CASE ~\A k \in keys : locks[k] = NoItem
  <2>1. putBack(w) /\ UNCHANGED locks
    BY <1>4 DEF lockEntities
  <2>2. hand' = [hand EXCEPT ![w] = NoItem] /\ stage' = [stage EXCEPT ![w] = "idle"]
    BY <2>1 DEF putBack
  <2>3. \A v \in Workers : PastLock(v)' => PastLock(v) /\ hand'[v] = hand[v]
    BY <2>2 DEF PastLock, TypeOK
  <2> QED
    BY <1>1, <2>1, <2>3, NobodyLocks
<1> QED
  BY <1>3, <1>4

\* unlockEntities: the keys of the others are held by other items.
LEMMA UnlockKeepsTaken ==
  ASSUME TypeOK, Created, KeysTaken, ItemsDiffer, NEW w \in Workers, unlockEntities(w)
  PROVE  KeysTaken' /\ ItemsDiffer'
<1> DEFINE keys == lockKeysFor(msg[hand[w]])
<1>1. /\ Serial' = Serial /\ msg' = msg /\ PastLock(w)
      /\ hand' = [hand EXCEPT ![w] = NoItem] /\ stage' = [stage EXCEPT ![w] = "idle"]
      /\ locks' = [k \in Keys |-> IF k \in keys /\ locks[k] = hand[w] THEN NoItem ELSE locks[k]]
  BY DEF unlockEntities, Serial, PastLock
<1>2. ASSUME ~Serial, NEW v \in Workers, PastLock(v)'
      PROVE  PastLock(v) /\ hand'[v] = hand[v] /\ hand[v] # hand[w] /\ hand[v] \in Made
  <2>1. v # w /\ PastLock(v) /\ hand'[v] = hand[v]
    BY <1>1, <1>2 DEF PastLock, TypeOK
  <2>2. hand[v] # hand[w]
    BY <1>1, <1>2, <2>1 DEF ItemsDiffer
  <2>3. hand[v] \in Made
    BY <2>1 DEF PastLock, Created
  <2> QED
    BY <2>1, <2>2, <2>3
<1>3. KeysTaken'
  <2>1. SUFFICES ASSUME ~Serial, NEW v \in Workers, PastLock(v)',
                        NEW k \in lockKeysFor(msg[hand'[v]])
                 PROVE  locks'[k] = hand'[v]
    BY <1>1 DEF KeysTaken
  <2>2. PastLock(v) /\ hand'[v] = hand[v] /\ hand[v] # hand[w] /\ hand[v] \in Made
    BY <1>2, <2>1
  <2>3. locks[k] = hand[v]
    BY <2>1, <2>2 DEF KeysTaken
  <2>4. k \in Keys
    BY <2>1, <2>2, KeysOfItem
  <2> QED
    BY <1>1, <2>2, <2>3, <2>4
<1>4. ItemsDiffer'
  BY <1>1, <1>2 DEF ItemsDiffer
<1> QED
  BY <1>3, <1>4

\* Every step of the mailbox keeps the locks.
LEMMA StepLocks ==
  ASSUME TypeOK, Created, KeysTaken, ItemsDiffer, [Next]_vars
  PROVE  KeysTaken' /\ ItemsDiffer'
<1> DEFINE Same == /\ UNCHANGED <<msg, locks>>
                   /\ \A v \in Workers : PastLock(v)' => PastLock(v) /\ hand'[v] = hand[v]
<1>1. ASSUME Same PROVE KeysTaken' /\ ItemsDiffer'
  BY <1>1, NobodyLocks
<1>2. ASSUME UNCHANGED <<msg, hand, stage, locks>> PROVE KeysTaken' /\ ItemsDiffer'
  BY <1>1, <1>2 DEF PastLock
<1>3. ASSUME NEW m \in Messages, enqueue(m) PROVE KeysTaken' /\ ItemsDiffer'
  <2>1. UNCHANGED <<hand, stage, locks>> /\ (msg' = msg \/ msg' = Append(msg, m))
    BY <1>3 DEF enqueue, insertNew
  <2>2. \A i \in Made : msg'[i] = msg[i]
    BY <2>1 DEF Made, TypeOK
  <2> QED
    BY <2>1, <2>2, NobodyLocks DEF PastLock
<1>4. ASSUME NEW w \in Workers, dequeue(w) \/ dequeueNothing(w)
      PROVE  KeysTaken' /\ ItemsDiffer'
  <2>1. CASE dequeueNothing(w)
    BY <1>2, <2>1 DEF dequeueNothing
  <2>2. CASE dequeue(w)
    <3>1. PICK i : hand' = [hand EXCEPT ![w] = i] /\ stage' = [stage EXCEPT ![w] = "claimed"]
      BY <2>2 DEF dequeue
    <3>2. Same
      BY <2>2, <3>1 DEF dequeue, PastLock, TypeOK
    <3> QED
      BY <1>1, <3>2
  <2> QED
    BY <1>4, <2>1, <2>2
<1>5. ASSUME NEW w \in Workers, complete(w) \/ requeue(w) \/ drop(w) \/ deferDequeued(w)
      PROVE  KeysTaken' /\ ItemsDiffer'
  <2>1. stage[w] = "working" /\ Leave(w) /\ UNCHANGED <<msg, locks>>
    BY <1>5 DEF complete, requeue, drop, deferDequeued, EndTurn
  <2>2. CASE Serial
    BY <2>2 DEF Serial, KeysTaken, ItemsDiffer
  <2>3. CASE ~Serial
    BY <1>1, <2>1, <2>3 DEF Leave, PastLock, TypeOK
  <2> QED
    BY <2>2, <2>3
<1>6. ASSUME NEW w \in Workers,
             \/ resurfaceDue(w) \/ preTriage(w) \/ focus(w) \/ abortDeliberation(w)
             \/ applyDeliberationResult(w) \/ shutdown(w) \/ \E i \in Items : merge(w, i)
      PROVE  KeysTaken' /\ ItemsDiffer'
  <2>1. Serial
    BY <1>6 DEF resurfaceDue, preTriage, focus, abortDeliberation, applyDeliberationResult,
                shutdown, merge
  <2> QED
    BY <2>1 DEF Serial, KeysTaken, ItemsDiffer
<1>7. ASSUME NEW w \in Workers, lockEntities(w) \/ unlockEntities(w)
      PROVE  KeysTaken' /\ ItemsDiffer'
  BY <1>7, LockKeepsTaken, UnlockKeepsTaken
<1>8. ASSUME NEW R, Restart(R) PROVE KeysTaken' /\ ItemsDiffer'
  <2>1. \A v \in Workers : ~PastLock(v)'
    BY <1>8 DEF Restart, PastLock
  <2> QED
    BY <2>1 DEF KeysTaken, ItemsDiffer
<1>9. ASSUME \/ \E w \in Workers : renewLease(w)
             \/ \E i \in Items : \/ deferItem(i) \/ dropItem(i) \/ dropById(i)
                                  \/ LeaseExpires(i)
                                  \/ \E p \in Priorities : updatePriority(i, p)
             \/ \E t \in Tasks : dropStatusUpdatesByTaskId(t)
             \/ cleanStaleProcessing \/ Age \/ UNCHANGED vars
      PROVE  KeysTaken' /\ ItemsDiffer'
  <2>1. UNCHANGED <<msg, hand, stage, locks>>
    BY <1>9 DEF renewLease, deferItem, dropItem, dropById, LeaseExpires, updatePriority,
                dropStatusUpdatesByTaskId, cleanStaleProcessing, Age, Memory, vars
  <2> QED
    BY <1>2, <2>1
<1>10. CASE Next
  BY <1>3, <1>4, <1>5, <1>6, <1>7, <1>8, <1>9, <1>10 DEF Next, Crash, CrashWhileSettling
<1> QED
  BY <1>9, <1>10

-----------------------------------------------------------------------------
(***************************************************************************)
(* What the queue operators keep: the entries, that an entry is there      *)
(* once, and the order of priority.                                        *)
(***************************************************************************)
\* Item i is in the array q once, or not at all.
AtMostOnce(q, i) == \A k, n \in 1..Len(q) : q[k] = i /\ q[n] = i => k = n

\* The array q is in the order of the priorities p.
Sorted(q, p) == \A k, n \in 1..Len(q) : k < n => p[q[k]] <= p[q[n]]

\* Kept picks positions in their order, each of them once.
LEMMA KeptMap ==
  ASSUME NEW S, NEW q \in Seq(S), NEW K \in SUBSET (1..Len(q)), NEW r \in Kept(q, K)
  PROVE  /\ Len(r) \in Nat
         /\ \E f \in [1..Len(r) -> K] :
              /\ \A n \in 1..Len(r) : r[n] = q[f[n]]
              /\ \A m, n \in 1..Len(r) : m < n => f[m] < f[n]
              /\ \A k \in K : \E n \in 1..Len(r) : f[n] = k
<1>1. Cardinality(K) \in Nat
  BY PositionsFinite, LenProperties
<1>2. PICK f \in [1..Cardinality(K) -> K] :
        /\ r = [n \in 1..Cardinality(K) |-> q[f[n]]]
        /\ \A m, n \in 1..Cardinality(K) : m < n => f[m] < f[n]
        /\ \A k \in K : \E n \in 1..Cardinality(K) : f[n] = k
  BY DEF Kept
<1>3. Len(r) = Cardinality(K)
  BY <1>1, <1>2
<1> QED
  BY <1>1, <1>2, <1>3

\* The entries that Kept leaves, and their order.
LEMMA KeptEntries ==
  ASSUME NEW S, NEW q \in Seq(S), NEW K \in SUBSET (1..Len(q)), NEW r \in Kept(q, K)
  PROVE  /\ \A i : IsQueued(r, i) <=> \E k \in K : q[k] = i
         /\ \A i : AtMostOnce(q, i) => AtMostOnce(r, i)
         /\ \A p : Sorted(q, p) => Sorted(r, p)
<1>1. PICK f \in [1..Len(r) -> K] :
        /\ \A n \in 1..Len(r) : r[n] = q[f[n]]
        /\ \A m, n \in 1..Len(r) : m < n => f[m] < f[n]
        /\ \A k \in K : \E n \in 1..Len(r) : f[n] = k
  BY KeptMap
<1>2. Len(r) \in Nat /\ Len(q) \in Nat
  BY KeptMap, LenProperties
<1>0. \A n \in 1..Len(r) : f[n] \in K /\ f[n] \in 1..Len(q) /\ f[n] \in Nat
  <2>1. \A n \in 1..Len(r) : f[n] \in K
    BY <1>1
  <2>2. \A k \in K : k \in 1..Len(q) /\ k \in Nat
    BY <1>2
  <2> QED
    BY <2>1, <2>2
<1>3. ASSUME NEW i PROVE IsQueued(r, i) <=> \E k \in K : q[k] = i
  <2>1. ASSUME NEW n \in 1..Len(r), r[n] = i PROVE \E k \in K : q[k] = i
    BY <1>0, <1>1, <2>1
  <2>2. ASSUME NEW k \in K, q[k] = i PROVE \E n \in 1..Len(r) : r[n] = i
    BY <1>1, <2>2
  <2> QED
    BY <2>1, <2>2 DEF IsQueued
<1>4. ASSUME NEW i, AtMostOnce(q, i), NEW k \in 1..Len(r), NEW n \in 1..Len(r),
             r[k] = i, r[n] = i
      PROVE  k = n
  <2>1. f[k] = f[n]
    <3>1. q[f[k]] = i /\ q[f[n]] = i
      BY <1>1, <1>4
    <3> QED
      BY <1>0, <1>4, <3>1 DEF AtMostOnce
  <2>2. ~(k < n) /\ ~(n < k)
    BY <1>0, <1>1, <1>2, <2>1
  <2> QED
    BY <1>2, <2>2
<1>5. ASSUME NEW p, Sorted(q, p) PROVE Sorted(r, p)
  <2>1. ASSUME NEW m \in 1..Len(r), NEW n \in 1..Len(r), m < n PROVE p[r[m]] <= p[r[n]]
    BY <1>0, <1>1, <1>5, <2>1 DEF Sorted
  <2> QED
    BY <2>1 DEF Sorted
<1> QED
  BY <1>3, <1>4, <1>5 DEF AtMostOnce

\* Without removes all entries of the items in T.
LEMMA WithoutEntries ==
  ASSUME NEW S, NEW q \in Seq(S), NEW T, NEW r \in Without(q, T)
  PROVE  /\ \A i : IsQueued(r, i) <=> IsQueued(q, i) /\ i \notin T
         /\ \A i : AtMostOnce(q, i) => AtMostOnce(r, i)
         /\ \A p : Sorted(q, p) => Sorted(r, p)
<1> DEFINE K == {k \in 1..Len(q) : q[k] \notin T}
<1>1. K \in SUBSET (1..Len(q)) /\ r \in Kept(q, K)
  BY DEF Without
<1>2. \A i : (\E k \in K : q[k] = i) <=> IsQueued(q, i) /\ i \notin T
  BY DEF IsQueued
<1> HIDE DEF K
<1> QED
  BY <1>1, <1>2, KeptEntries

\* RemoveFirstOf removes one entry of item i.
LEMMA RemoveFirstEntries ==
  ASSUME NEW S, NEW q \in Seq(S), NEW i, NEW r \in RemoveFirstOf(q, i)
  PROVE  /\ \A j : IsQueued(r, j) => IsQueued(q, j)
         /\ \A j : j # i /\ IsQueued(q, j) => IsQueued(r, j)
         /\ AtMostOnce(q, i) => ~IsQueued(r, i)
         /\ \A j : AtMostOnce(q, j) => AtMostOnce(r, j)
         /\ \A p : Sorted(q, p) => Sorted(r, p)
<1> DEFINE K == (1..Len(q)) \ First(q, i)
<1>1. K \in SUBSET (1..Len(q)) /\ r \in Kept(q, K)
  BY DEF RemoveFirstOf
<1>2. \A j : (\E k \in K : q[k] = j) => IsQueued(q, j)
  BY DEF IsQueued
<1>3. \A j : j # i /\ IsQueued(q, j) => \E k \in K : q[k] = j
  BY DEF IsQueued, First
<1>4. ASSUME AtMostOnce(q, i), NEW k \in K, q[k] = i PROVE FALSE
  <2>1. PICK j \in 1..(k - 1) : q[j] = i
    BY <1>4 DEF First
  <2>2. j \in 1..Len(q) /\ j # k
    BY LenProperties
  <2> QED
    BY <1>4, <2>1, <2>2 DEF AtMostOnce
<1> HIDE DEF K
<1> QED
  BY <1>1, <1>2, <1>3, <1>4, KeptEntries

\* insertSorted adds an entry of item i at its place.
LEMMA InsertEntries ==
  ASSUME NEW S \in SUBSET Nat, NEW q \in Seq(S), NEW i \in S, NEW p, NEW r \in insertSorted(q, i, p)
  PROVE  /\ \A j : IsQueued(r, j) <=> j = i \/ IsQueued(q, j)
         /\ \A j : AtMostOnce(q, j) /\ (j # i \/ ~IsQueued(q, i)) => AtMostOnce(r, j)
         /\ p \in [S -> Nat] /\ Sorted(q, p) => Sorted(r, p)
<1>1. PICK k \in 1..(Len(q) + 1) :
        /\ r = InsertAt(q, k, i)
        /\ \A j \in 1..(k - 1) : p[q[j]] < p[i]
        /\ k <= Len(q) => p[q[k]] >= p[i]
  BY DEF insertSorted
<1>2. Len(q) \in Nat
  BY LenProperties
<1>3. /\ Len(r) = Len(q) + 1
      /\ \A n \in 1..Len(r) : r[n] = IF n < k THEN q[n] ELSE IF n = k THEN i ELSE q[n - 1]
  BY <1>1, <1>2 DEF InsertAt
<1>4. ASSUME NEW j PROVE IsQueued(r, j) <=> j = i \/ IsQueued(q, j)
  <2>1. ASSUME NEW n \in 1..Len(r), r[n] = j PROVE j = i \/ IsQueued(q, j)
    <3>1. CASE n < k
      BY <1>2, <1>3, <2>1, <3>1 DEF IsQueued
    <3>2. CASE n > k
      <4>1. n - 1 \in 1..Len(q) /\ q[n - 1] = j
        BY <1>2, <1>3, <2>1, <3>2
      <4> QED
        BY <4>1 DEF IsQueued
    <3>3. CASE n = k
      BY <1>2, <1>3, <2>1, <3>3
    <3> QED
      BY <1>2, <3>1, <3>2, <3>3
  <2>2. r[k] = i /\ k \in 1..Len(r)
    BY <1>2, <1>3
  <2>3. ASSUME NEW n \in 1..Len(q), q[n] = j PROVE \E m \in 1..Len(r) : r[m] = j
    <3>1. CASE n < k
      <4>1. n \in 1..Len(r) /\ r[n] = j
        BY <1>2, <1>3, <2>3, <3>1
      <4> QED
        BY <4>1
    <3>2. CASE n >= k
      <4>1. n + 1 \in 1..Len(r) /\ r[n + 1] = j
        BY <1>2, <1>3, <2>3, <3>2
      <4> QED
        BY <4>1
    <3> QED
      BY <1>2, <3>1, <3>2
  <2> QED
    BY <2>1, <2>2, <2>3 DEF IsQueued
<1>5. ASSUME NEW j, AtMostOnce(q, j), j # i \/ ~IsQueued(q, i),
             NEW m \in 1..Len(r), NEW n \in 1..Len(r), r[m] = j, r[n] = j
      PROVE  m = n
  <2> DEFINE Old(x) == IF x < k THEN x ELSE x - 1
  <2>1. CASE j = i
    <3>1. ASSUME NEW x \in 1..Len(r), r[x] = i PROVE x = k
      <4>1. CASE x < k
        BY <1>2, <1>3, <1>5, <2>1, <3>1, <4>1 DEF IsQueued
      <4>2. CASE x > k
        <5>1. x - 1 \in 1..Len(q) /\ q[x - 1] = i
          BY <1>2, <1>3, <3>1, <4>2
        <5> QED
          BY <1>5, <2>1, <5>1 DEF IsQueued
      <4> QED
        BY <1>2, <4>1, <4>2
    <3> QED
      BY <1>5, <2>1, <3>1
  <2>2. CASE j # i
    <3>1. ASSUME NEW x \in 1..Len(r), r[x] = j PROVE x # k /\ Old(x) \in 1..Len(q) /\ q[Old(x)] = j
      BY <1>2, <1>3, <2>2, <3>1
    <3>2. Old(m) = Old(n) /\ m # k /\ n # k
      BY <1>5, <3>1 DEF AtMostOnce
    <3> QED
      BY <1>2, <1>3, <3>2
  <2> QED
    BY <2>1, <2>2
<1>6. ASSUME p \in [S -> Nat], Sorted(q, p), NEW m \in 1..Len(r), NEW n \in 1..Len(r), m < n
      PROVE  p[r[m]] <= p[r[n]]
  <2>1. \A x \in 1..Len(q) : q[x] \in S /\ p[q[x]] \in Nat
    BY <1>6, ElementOfSeq
  <2>2. p[i] \in Nat
    BY <1>6
  <2>3. \A x, y \in 1..Len(q) : x < y => p[q[x]] <= p[q[y]]
    BY <1>6 DEF Sorted
  <2>4. CASE n < k
    BY <1>2, <1>3, <1>6, <2>3, <2>4
  <2>5. CASE n = k
    <3>1. m \in 1..(k - 1) /\ m \in 1..Len(q) /\ r[m] = q[m] /\ r[n] = i
      BY <1>2, <1>3, <1>6, <2>5
    <3> QED
      BY <1>1, <2>1, <2>2, <3>1
  <2>6. CASE n > k
    <3>1. n - 1 \in 1..Len(q) /\ r[n] = q[n - 1] /\ k <= n - 1 /\ k \in 1..Len(q)
      BY <1>2, <1>3, <2>6
    <3>2. p[i] <= p[q[n - 1]]
      <4>1. p[i] <= p[q[k]]
        BY <1>1, <1>2, <2>1, <2>2, <3>1
      <4>2. p[q[k]] <= p[q[n - 1]]
        BY <1>2, <2>1, <2>3, <3>1
      <4> QED
        BY <2>1, <2>2, <3>1, <4>1, <4>2
    <3>3. CASE m < k
      <4>1. m \in 1..Len(q) /\ r[m] = q[m] /\ m < n - 1
        BY <1>2, <1>3, <2>6, <3>1, <3>3
      <4> QED
        BY <2>3, <3>1, <4>1
    <3>4. CASE m = k
      BY <1>2, <1>3, <3>1, <3>2, <3>4
    <3>5. CASE m > k
      <4>1. m - 1 \in 1..Len(q) /\ r[m] = q[m - 1] /\ m - 1 < n - 1
        BY <1>2, <1>3, <1>6, <3>5
      <4> QED
        BY <2>3, <3>1, <4>1
    <3> QED
      BY <1>2, <3>3, <3>4, <3>5
  <2> QED
    BY <1>2, <2>4, <2>5, <2>6
<1> QED
  BY <1>4, <1>5, <1>6 DEF AtMostOnce, Sorted

\* Loaded adds an entry for each item of T, at its place; q has none of them.
LEMMA LoadedEntries ==
  ASSUME NEW S \in SUBSET Items, NEW q \in Seq(S), NEW T \in SUBSET S, IsFiniteSet(T), NEW p,
         NEW r \in Loaded(q, T, p)
  PROVE  /\ \A i : IsQueued(r, i) <=> i \in T \/ IsQueued(q, i)
         /\ \A i \in T : AtMostOnce(r, i)
         /\ \A i : AtMostOnce(q, i) => AtMostOnce(r, i)
         /\ p \in [Items -> Nat] /\ Sorted(q, p) => Sorted(r, p)
<1> DEFINE n == Len(q) + Cardinality(T)
<1>1. Len(q) \in Nat /\ Cardinality(T) \in Nat /\ n \in Nat
  BY LenProperties, FS_CardinalityType
<1>2. /\ r \in [1..n -> Items] /\ q \in Without(r, T)
      /\ \A i \in T : \E m \in DOMAIN r : r[m] = i
      /\ \A x, y \in DOMAIN r : x < y =>
           /\ r[x] \in T => p[r[x]] <= p[r[y]]
           /\ r[x] \notin T /\ r[y] \in T => p[r[x]] < p[r[y]]
  BY DEF Loaded
<1>3. r \in Seq(Items) /\ Len(r) = n /\ DOMAIN r = 1..n
  BY <1>1, <1>2, IsASeq
<1> DEFINE K == {k \in 1..Len(r) : r[k] \notin T}
           L == {k \in 1..Len(r) : r[k] \in T}
<1>4. q \in Kept(r, K) /\ K \in SUBSET (1..Len(r))
  BY <1>2 DEF Without
<1>5. PICK f \in [1..Len(q) -> K] :
        /\ \A m \in 1..Len(q) : q[m] = r[f[m]]
        /\ \A x, y \in 1..Len(q) : x < y => f[x] < f[y]
        /\ \A k \in K : \E m \in 1..Len(q) : f[m] = k
  <2> HIDE DEF K
  <2> QED
    BY <1>3, <1>4, KeptMap
<1>6. \A i : IsQueued(q, i) <=> IsQueued(r, i) /\ i \notin T
  BY <1>2, <1>3, WithoutEntries
<1>7. \A i \in T : IsQueued(r, i)
  BY <1>2, <1>3 DEF IsQueued
<1>8. ASSUME NEW i, AtMostOnce(q, i), i \notin T, NEW x \in 1..Len(r), NEW y \in 1..Len(r),
             r[x] = i, r[y] = i
      PROVE  x = y
  <2>1. PICK a \in 1..Len(q), b \in 1..Len(q) : f[a] = x /\ f[b] = y
    BY <1>5, <1>8
  <2>2. q[a] = i /\ q[b] = i
    BY <1>5, <1>8, <2>1
  <2> QED
    BY <1>8, <2>1, <2>2 DEF AtMostOnce
<1>9. Cardinality(L) = Cardinality(T) /\ IsFiniteSet(L)
  <2>1. IsFiniteSet(1..n) /\ Cardinality(1..n) = n
    BY <1>1, FS_Interval
  <2>2. K \subseteq 1..n /\ L \subseteq 1..n /\ L = (1..n) \ K /\ (1..n) \cap K = K
    BY <1>3
  <2>3. Cardinality(K) = Len(q)
    <3>1. PICK g \in [1..Cardinality(K) -> K] : q = [m \in 1..Cardinality(K) |-> r[g[m]]]
      BY <1>4 DEF Kept
    <3>2. Cardinality(K) \in Nat
      BY <1>1, <1>3, PositionsFinite
    <3> QED
      BY <3>1, <3>2
  <2>4. IsFiniteSet(K) /\ IsFiniteSet(L)
    BY <2>1, <2>2, FS_Subset
  <2>5. Cardinality(L) = n - Cardinality(K)
    <3> HIDE DEF K, L, n
    <3>1. Cardinality((1..n) \ K) = Cardinality(1..n) - Cardinality((1..n) \cap K)
      BY <2>1, FS_Difference
    <3> QED
      BY <2>1, <2>2, <3>1
  <2> QED
    BY <1>1, <2>3, <2>4, <2>5
<1>10. ASSUME NEW i \in T, NEW x \in 1..Len(r), NEW y \in 1..Len(r), r[x] = i, r[y] = i
       PROVE  x = y
  <2> DEFINE g == [k \in L |-> r[k]]
  <2>1. g \in Surjection(L, T)
    BY <1>2, <1>3 DEF Surjection
  <2>2. x \in L /\ y \in L /\ g[x] = g[y] /\ DOMAIN g = L
    BY <1>10
  <2> HIDE DEF g, L
  <2>3. g \in Injection(L, T)
    BY <1>9, <2>1, FS_Surjection
  <2>4. \A a, b \in DOMAIN g : g[a] = g[b] => a = b
    BY <2>3 DEF Injection, IsInjective
  <2> QED
    BY <2>2, <2>4
<1>11. ASSUME p \in [Items -> Nat], Sorted(q, p), NEW x \in 1..Len(r), NEW y \in 1..Len(r), x < y
       PROVE  p[r[x]] <= p[r[y]]
  <2>1. r[x] \in Items /\ r[y] \in Items /\ p[r[x]] \in Nat /\ p[r[y]] \in Nat
    BY <1>2, <1>3, <1>11
  <2>2. CASE r[x] \in T
    BY <1>2, <1>3, <1>11, <2>2
  <2>3. CASE r[x] \notin T /\ r[y] \in T
    BY <1>2, <1>3, <1>11, <2>1, <2>3
  <2>4. CASE r[x] \notin T /\ r[y] \notin T
    <3>1. PICK a \in 1..Len(q), b \in 1..Len(q) : f[a] = x /\ f[b] = y
      BY <1>5, <2>4
    <3>2. a < b
      BY <1>1, <1>5, <1>11, <3>1
    <3> QED
      BY <1>5, <1>11, <3>1, <3>2 DEF Sorted
  <2> QED
    BY <2>2, <2>3, <2>4
<1> QED
  BY <1>6, <1>7, <1>8, <1>10, <1>11 DEF AtMostOnce, Sorted

\* A set of positions has a least one: otherwise the positions that are not
\* below it could all be moved down by one, which leaves out the last.
LEMMA LeastPosition ==
  ASSUME NEW n \in Nat, NEW K \in SUBSET (1..n), K # {}
  PROVE  \E k \in K : \A j \in 1..(k - 1) : j \notin K
<1> SUFFICES ASSUME \A k \in K : \E j \in 1..(k - 1) : j \in K PROVE FALSE
  OBVIOUS
<1> DEFINE U == {m \in 1..n : \E k \in K : k <= m}
           f == [m \in U |-> m - 1]
<1>1. \A m \in U : m - 1 \in U
  <2>1. ASSUME NEW m \in U PROVE m - 1 \in U
    <3>1. PICK k \in K : k <= m
      OBVIOUS
    <3>2. PICK j \in 1..(k - 1) : j \in K
      OBVIOUS
    <3>3. k \in 1..n /\ j \in 1..n /\ m \in 1..n
      OBVIOUS
    <3>4. m - 1 \in 1..n /\ j <= m - 1
      BY <3>1, <3>2, <3>3
    <3> QED
      BY <3>2, <3>4
  <2> QED
    BY <2>1
<1>2. f \in Injection(U, U)
  <2>1. \A a, b \in U : a - 1 = b - 1 => a = b
    OBVIOUS
  <2> QED
    BY <1>1, <2>1 DEF Injection, IsInjective
<1>3. IsFiniteSet(U)
  BY PositionsFinite
<1>4. f \in Surjection(U, U)
  <2> HIDE DEF U, f
  <2> QED
    BY <1>2, <1>3, FS_Injection
<1>5. n \in U
  <2>1. PICK k \in K : k \in 1..n
    OBVIOUS
  <2>2. n \in 1..n /\ k <= n
    BY <2>1
  <2> QED
    BY <2>2
<1>6. PICK m \in U : f[m] = n
  <2> HIDE DEF U, f
  <2> QED
    BY <1>4, <1>5 DEF Surjection
<1>7. m - 1 = n /\ m \in 1..n
  BY <1>6
<1> QED
  BY <1>7

\* What dequeue takes from the array q: entry n may be claimed, what else it
\* removes may not.
LEMMA ClaimEntries ==
  ASSUME NEW S, NEW q \in Seq(S), NEW R, NEW n \in Claimed(q, R), NEW r \in AfterClaim(q, n)
  PROVE  /\ n \in 1..Len(q) /\ q[n] \in S /\ IsQueued(q, q[n]) /\ claimable(R, q[n])
         /\ \A i : IsQueued(r, i) => IsQueued(q, i)
         /\ \A i : i # q[n] /\ IsQueued(q, i) /\ ~IsQueued(r, i) => ~claimable(R, i)
         /\ AtMostOnce(q, q[n]) => ~IsQueued(r, q[n])
         /\ \A i : AtMostOnce(q, i) => AtMostOnce(r, i)
         /\ \A p : Sorted(q, p) => Sorted(r, p)
<1> DEFINE K == (1..Len(q)) \ (Refused(q, n) \union {n})
<1>1. K \in SUBSET (1..Len(q)) /\ r \in Kept(q, K)
  BY DEF AfterClaim
<1>2. /\ n \in 1..Len(q) /\ claimable(R, q[n])
      /\ \A j \in 1..(n - 1) : isItemEntityLocked(q[j]) \/ ~claimable(R, q[j])
  BY DEF Claimed
<1>3. \A i : (\E k \in K : q[k] = i) => IsQueued(q, i)
  BY DEF IsQueued
<1>4. ASSUME NEW i, i # q[n], IsQueued(q, i), ~\E k \in K : q[k] = i
      PROVE  ~claimable(R, i)
  <2>1. PICK k \in 1..Len(q) : q[k] = i
    BY <1>4 DEF IsQueued
  <2>2. k \in 1..(n - 1) /\ ~isItemEntityLocked(q[k])
    BY <1>4, <2>1 DEF Refused
  <2> QED
    BY <1>2, <2>1, <2>2
<1>5. ASSUME AtMostOnce(q, q[n]), NEW k \in K, q[k] = q[n] PROVE FALSE
  BY <1>2, <1>5 DEF AtMostOnce
<1>6. q[n] \in S /\ IsQueued(q, q[n])
  BY <1>2, ElementOfSeq DEF IsQueued
<1> HIDE DEF K
<1> QED
  BY <1>1, <1>2, <1>3, <1>4, <1>5, <1>6, KeptEntries

\* When nothing is claimed, only entries go that may not be claimed.
LEMMA ThrowEntries ==
  ASSUME NEW S, NEW q \in Seq(S), NEW R, Claimed(q, R) = {}, NEW r \in OnlyLocked(q)
  PROVE  /\ \A i : IsQueued(r, i) => IsQueued(q, i) /\ isItemEntityLocked(i)
         /\ \A i : IsQueued(q, i) /\ ~IsQueued(r, i) => ~claimable(R, i)
         /\ \A i : AtMostOnce(q, i) => AtMostOnce(r, i)
         /\ \A p : Sorted(q, p) => Sorted(r, p)
<1> DEFINE K == {k \in 1..Len(q) : isItemEntityLocked(q[k])}
           C == {k \in 1..Len(q) : ~isItemEntityLocked(q[k]) /\ claimable(R, q[k])}
<1>1. K \in SUBSET (1..Len(q)) /\ r \in Kept(q, K)
  BY DEF OnlyLocked
<1>2. \A i : (\E k \in K : q[k] = i) => IsQueued(q, i) /\ isItemEntityLocked(i)
  BY DEF IsQueued
<1>3. C = {}
  <2>1. SUFFICES ASSUME C # {} PROVE FALSE
    OBVIOUS
  <2>2. Len(q) \in Nat /\ C \in SUBSET (1..Len(q))
    BY LenProperties
  <2>3. PICK k \in C : \A j \in 1..(k - 1) : j \notin C
    <3> HIDE DEF C
    <3> QED
      BY <2>1, <2>2, LeastPosition
  <2>4. \A j \in 1..(k - 1) : j \in 1..Len(q)
    BY <2>2
  <2>5. k \in Claimed(q, R)
    BY <2>3, <2>4 DEF Claimed
  <2> QED
    BY <2>5
<1>4. \A i : IsQueued(q, i) /\ (~\E k \in K : q[k] = i) => ~claimable(R, i)
  BY <1>3 DEF IsQueued
<1> HIDE DEF K
<1> QED
  BY <1>1, <1>2, <1>4, KeptEntries

-----------------------------------------------------------------------------
(***************************************************************************)
(* What is kept of every item: where it is, and what its row says.         *)
(***************************************************************************)
\* The worker has an item that is not settled.
Busy(w) == stage[w] \in {"claimed", "deliberating", "working"}

HeldItems == batch \union {hand[w] : w \in {v \in Workers : Busy(v)}}

\* An idle worker has nothing; an item deliberated about is not strict; only
\* the serial loop, at work, has a batch, and it locks nothing.
Shape ==
  /\ \A w \in Workers : stage[w] = "idle" => hand[w] = NoItem
  /\ \A w \in Workers : stage[w] = "deliberating" => ~isStrictStateItem(msg[hand[w]])
  /\ batch # {} => Serial /\ \A w \in Workers : stage[w] = "working"
  /\ Serial => \A k \in Keys : locks[k] = NoItem

\* An item that cannot be handed out a second time while somebody has it:
\* that takes a drop by identifier and a round that is delivered again.
Sure(i) == Droppable = {} \/ mailboxDedupKey(msg[i]) = <<>>

\* Such an item is in one hand only, or in the batch.
OneHand ==
  /\ \A v, w \in Workers :
       v # w /\ Busy(v) /\ Busy(w) /\ Sure(hand[v]) => hand[v] # hand[w]
  /\ \A w \in Workers : Busy(w) => hand[w] \notin batch

\* It is in the array q once, and not while it is in the set H of those held.
OnePlace(q, H) ==
  \A i \in Made : Sure(i) => AtMostOnce(q, i) /\ (i \in H => ~IsQueued(q, i))

\* The row r of item i, when the item is in the array (inq) or held.
RowSafe(i, r, inq, held) ==
  /\ r.status = "queued" => inq \/ held \/ r.by = "dead"
  /\ r.status = "processing" => held \/ msg[i].type \in {"human_chat", "a2a_message"}
  /\ r.by = "self" => /\ r.status \in Requeueable
                      /\ held \/ (r.status # "queued" /\ ~inq)
  /\ r.status = "dropped" /\ Droppable = {} /\ isStrictStateItem(msg[i]) => ~held

RowsSafe(q, R, H) == \A i \in Items : RowSafe(i, R[i], IsQueued(q, i), i \in H)

\* The array q and the rows R, when the items of H are held.
Placed(q, R, H) ==
  q \in Seq(Made) /\ R \in [Items -> Row] /\ OnePlace(q, H) /\ RowsSafe(q, R, H)

\* The row of an item that is not strict does not go back to queued before
\* the worker that claimed it starts.
ClaimKept ==
  \A w \in Workers : stage[w] = "claimed" /\ ~isStrictStateItem(msg[hand[w]]) =>
    rows[hand[w]].status # "queued"

PlaceInv == Shape /\ OneHand /\ Placed(queue, rows, HeldItems) /\ ClaimKept

-----------------------------------------------------------------------------
(***************************************************************************)
(* What each statement on the table does to status and claim of a row.     *)
(***************************************************************************)
\* updateStatus writes the status of an existing row.
LEMMA UpdateRow ==
  ASSUME NEW R \in [Items -> Row], NEW i \in Items, NEW s \in Status \ {"absent"}, NEW j \in Items
  PROVE  /\ updateStatus(R, i, s)[j].by = R[j].by
         /\ updateStatus(R, i, s)[j].status =
              IF j = i /\ R[i].status # "absent" THEN s ELSE R[j].status
BY DEF updateStatus, Row

\* settle also gives up a claim of this process.
LEMMA SettleRow ==
  ASSUME NEW R \in [Items -> Row], NEW i \in Items, NEW s \in Status \ {"absent"}, NEW j \in Items
  PROVE  /\ settle(R, i, s)[j].by = IF j = i /\ R[i].by = "self" THEN "none" ELSE R[j].by
         /\ settle(R, i, s)[j].status =
              IF j = i /\ R[i].status # "absent" THEN s ELSE R[j].status
<1> DEFINE U == updateStatus(R, i, s)
<1>1. U \in [Items -> Row]
  BY DEF updateStatus, Row
<1>2. /\ U[j].by = R[j].by /\ U[i].by = R[i].by
      /\ U[j].status = IF j = i /\ R[i].status # "absent" THEN s ELSE R[j].status
  BY UpdateRow
<1> HIDE DEF U
<1>3. /\ releaseClaim(U, i)[j].by = IF j = i /\ U[i].by = "self" THEN "none" ELSE U[j].by
      /\ releaseClaim(U, i)[j].status = U[j].status
  BY <1>1 DEF releaseClaim, Row
<1> QED
  BY <1>2, <1>3 DEF settle, U

\* requeueItem queues a row that may be queued again, unclaimed.
LEMMA RequeueRow ==
  ASSUME NEW R \in [Items -> Row], NEW i \in Items, NEW j \in Items
  PROVE  IF j = i /\ R[i].status \in Requeueable
         THEN requeueItem(R, i)[j].status = "queued" /\ requeueItem(R, i)[j].by = "none"
         ELSE requeueItem(R, i)[j] = R[j]
BY DEF requeueItem, Waiting

\* claimItem claims an existing row for this process.
LEMMA ClaimRow ==
  ASSUME NEW R \in [Items -> Row], NEW i \in Items, NEW j \in Items
  PROVE  IF j = i /\ R[i].status # "absent"
         THEN claimItem(R, i)[j].status = "processing" /\ claimItem(R, i)[j].by = "self"
         ELSE claimItem(R, i)[j] = R[j]
BY DEF claimItem

\* SetStatus writes the status of several existing rows.
LEMMA SetStatusRow ==
  ASSUME NEW R \in [Items -> Row], NEW S, NEW s \in Status \ {"absent"}, NEW j \in Items
  PROVE  /\ SetStatus(R, S, s)[j].by = R[j].by
         /\ SetStatus(R, S, s)[j].status =
              IF j \in S /\ R[j].status # "absent" THEN s ELSE R[j].status
<1>1. SetStatus(R, S, s)[j] = IF j \in S THEN updateStatus(R, j, s)[j] ELSE R[j]
  BY DEF SetStatus
<1> QED
  BY <1>1, UpdateRow

\* SettleAll settles several rows.
LEMMA SettleAllRow ==
  ASSUME NEW R \in [Items -> Row], NEW S, NEW s \in Status \ {"absent"}, NEW j \in Items
  PROVE  /\ SettleAll(R, S, s)[j].by =
              IF j \in S /\ R[j].by = "self" THEN "none" ELSE R[j].by
         /\ SettleAll(R, S, s)[j].status =
              IF j \in S /\ R[j].status # "absent" THEN s ELSE R[j].status
<1>1. SettleAll(R, S, s)[j] = IF j \in S THEN settle(R, j, s)[j] ELSE R[j]
  BY DEF SettleAll
<1> QED
  BY <1>1, SettleRow

\* markStaleProcessingAsDropped queues strict orphans and drops the others.
LEMMA MarkStaleRow ==
  ASSUME NEW R \in [Items -> Row], NEW j \in Items
  PROVE  LET r == markStaleProcessingAsDropped(R)[j]
         IN IF Orphan(R[j])
            THEN IF isStrictStateItem(msg[j]) THEN r.status = "queued" /\ r.by = "none"
                 ELSE r.status = "dropped" /\ r.by = R[j].by
            ELSE r = R[j]
<1>1. CASE Orphan(R[j]) /\ isStrictStateItem(msg[j])
  <2>1. R[j].status \in Requeueable
    BY <1>1 DEF Orphan, Requeueable
  <2>2. markStaleProcessingAsDropped(R)[j] = requeueItem(R, j)[j]
    BY <1>1 DEF markStaleProcessingAsDropped
  <2> QED
    BY <1>1, <2>1, <2>2, RequeueRow
<1>2. CASE Orphan(R[j]) /\ ~isStrictStateItem(msg[j])
  BY <1>2 DEF markStaleProcessingAsDropped, Row
<1>3. CASE ~Orphan(R[j])
  BY <1>3 DEF markStaleProcessingAsDropped
<1> QED
  BY <1>1, <1>2, <1>3

-----------------------------------------------------------------------------
(***************************************************************************)
(* The same for all rows, with the array q and the items H that are held:  *)
(* G is held afterwards, s the array afterwards.                           *)
(***************************************************************************)
\* The rows of S are settled; their entries may go, or come.
LEMMA SettleSafe ==
  ASSUME NEW R \in [Items -> Row], NEW q, NEW H, RowsSafe(q, R, H), NEW S,
         NEW t \in Status \ {"absent", "processing"}, NEW s, NEW G,
         \A j \in Items \ S : IsQueued(s, j) <=> IsQueued(q, j),
         t = "queued" => \A j \in S : IsQueued(s, j),
         \A j \in Items \ S : j \in H => j \in G, \A j \in Items : j \in G => j \in H,
         t = "dropped" /\ Droppable = {} => \A j \in S : j \in G => ~isStrictStateItem(msg[j])
  PROVE  RowsSafe(s, SettleAll(R, S, t), G)
<1> SUFFICES ASSUME NEW j \in Items
             PROVE  RowSafe(j, SettleAll(R, S, t)[j], IsQueued(s, j), j \in G)
  BY DEF RowsSafe
<1>1. RowSafe(j, R[j], IsQueued(q, j), j \in H)
  BY DEF RowsSafe
<1>2. /\ SettleAll(R, S, t)[j].by =
           IF j \in S /\ R[j].by = "self" THEN "none" ELSE R[j].by
      /\ SettleAll(R, S, t)[j].status =
           IF j \in S /\ R[j].status # "absent" THEN t ELSE R[j].status
  BY SettleAllRow
<1>3. R[j].status \in Status /\ t # "processing"
  BY DEF Row
<1> HIDE DEF IsQueued, isStrictStateItem
<1>4. CASE j \in S
  BY <1>1, <1>2, <1>3, <1>4 DEF RowSafe, Requeueable, Status
<1>5. CASE j \notin S
  BY <1>1, <1>2, <1>5 DEF RowSafe
<1> QED
  BY <1>4, <1>5

\* The status of the rows of S is written; none of them is claimed by this
\* process, except for an item that is held and stays claimed.
LEMMA SetStatusSafe ==
  ASSUME NEW R \in [Items -> Row], NEW q, NEW H, RowsSafe(q, R, H), NEW S,
         NEW t \in Status \ {"absent", "processing"}, NEW s,
         \A j \in Items \ S : IsQueued(s, j) <=> IsQueued(q, j),
         t = "queued" => \A j \in S : IsQueued(s, j),
         \A j \in S : R[j].by = "self" => j \in H /\ t \in Requeueable,
         t = "dropped" /\ Droppable = {} => \A j \in S : j \in H => ~isStrictStateItem(msg[j])
  PROVE  RowsSafe(s, SetStatus(R, S, t), H)
<1> SUFFICES ASSUME NEW j \in Items
             PROVE  RowSafe(j, SetStatus(R, S, t)[j], IsQueued(s, j), j \in H)
  BY DEF RowsSafe
<1>1. RowSafe(j, R[j], IsQueued(q, j), j \in H)
  BY DEF RowsSafe
<1>2. /\ SetStatus(R, S, t)[j].by = R[j].by
      /\ SetStatus(R, S, t)[j].status =
           IF j \in S /\ R[j].status # "absent" THEN t ELSE R[j].status
  BY SetStatusRow
<1>3. R[j].status \in Status /\ t # "processing"
  BY DEF Row
<1>4. CASE j \in S
  BY <1>1, <1>2, <1>3, <1>4 DEF RowSafe, Requeueable, Status
<1>5. CASE j \notin S
  BY <1>1, <1>2, <1>5 DEF RowSafe
<1> QED
  BY <1>4, <1>5

\* Item i goes back into the array, its row is queued if it may be.
LEMMA RequeueSafe ==
  ASSUME NEW R \in [Items -> Row], NEW q, NEW H, RowsSafe(q, R, H), NEW i \in Items,
         NEW s, NEW G,
         \A j \in Items \ {i} : IsQueued(s, j) <=> IsQueued(q, j), IsQueued(s, i),
         \A j \in Items \ {i} : j \in H => j \in G, \A j \in Items : j \in G => j \in H
  PROVE  RowsSafe(s, requeueItem(R, i), G)
<1> SUFFICES ASSUME NEW j \in Items
             PROVE  RowSafe(j, requeueItem(R, i)[j], IsQueued(s, j), j \in G)
  BY DEF RowsSafe
<1>1. RowSafe(j, R[j], IsQueued(q, j), j \in H)
  BY DEF RowsSafe
<1>2. IF j = i /\ R[i].status \in Requeueable
      THEN requeueItem(R, i)[j].status = "queued" /\ requeueItem(R, i)[j].by = "none"
      ELSE requeueItem(R, i)[j] = R[j]
  BY RequeueRow
<1>3. CASE j = i
  BY <1>1, <1>2, <1>3 DEF RowSafe, Requeueable
<1>4. CASE j # i
  BY <1>1, <1>2, <1>4 DEF RowSafe
<1> QED
  BY <1>3, <1>4

\* Entries that may not be claimed are thrown out.
LEMMA ThrowSafe ==
  ASSUME NEW R \in [Items -> Row], NEW q, NEW H, RowsSafe(q, R, H), NEW s,
         \A j \in Items : IsQueued(s, j) => IsQueued(q, j),
         \A j \in Items : IsQueued(q, j) /\ ~IsQueued(s, j) => ~claimable(R, j)
  PROVE  RowsSafe(s, R, H)
<1> SUFFICES ASSUME NEW j \in Items
             PROVE  RowSafe(j, R[j], IsQueued(s, j), j \in H)
  BY DEF RowsSafe
<1>1. RowSafe(j, R[j], IsQueued(q, j), j \in H)
  BY DEF RowsSafe
<1>2. R[j].by \in {"none", "self", "dead"}
  BY DEF Row
<1> QED
  BY <1>1, <1>2 DEF RowSafe, claimable

\* Item i is claimed; what was thrown out before may not be claimed.
LEMMA ClaimSafe ==
  ASSUME NEW R \in [Items -> Row], NEW q, NEW H, RowsSafe(q, R, H), NEW i \in Items, NEW s, NEW G,
         \A j \in Items \ {i} : IsQueued(s, j) => IsQueued(q, j),
         \A j \in Items \ {i} : IsQueued(q, j) /\ ~IsQueued(s, j) => ~claimable(R, j),
         claimable(R, i), i \in G, \A j \in Items \ {i} : j \in G <=> j \in H
  PROVE  RowsSafe(s, claimItem(R, i), G)
<1> SUFFICES ASSUME NEW j \in Items
             PROVE  RowSafe(j, claimItem(R, i)[j], IsQueued(s, j), j \in G)
  BY DEF RowsSafe
<1>1. RowSafe(j, R[j], IsQueued(q, j), j \in H)
  BY DEF RowsSafe
<1>2. R[j].by \in {"none", "self", "dead"}
  BY DEF Row
<1>3. IF j = i /\ R[i].status # "absent"
      THEN claimItem(R, i)[j].status = "processing" /\ claimItem(R, i)[j].by = "self"
      ELSE claimItem(R, i)[j] = R[j]
  BY ClaimRow
<1>4. CASE j = i
  BY <1>1, <1>3, <1>4 DEF RowSafe, claimable, Requeueable
<1>5. CASE j # i
  BY <1>1, <1>2, <1>3, <1>5 DEF RowSafe, claimable
<1> QED
  BY <1>4, <1>5

\* A table is one of all items.
LEMMA AllTables ==
  /\ MaxItems \in Nat /\ \A R \in [Items -> Row] : R \in Tables(MaxItems)
  /\ \A n : \A R \in Tables(n) : R \in [Items -> Row]
BY MailboxAssumption DEF Tables, Items

\* Statements on the table leave rows of the table.
LEMMA RowTypes ==
  ASSUME NEW R \in [Items -> Row], NEW i \in Items, NEW S, NEW t \in Status \ {"absent"}
  PROVE  /\ requeueItem(R, i) \in [Items -> Row]
         /\ claimItem(R, i) \in [Items -> Row]
         /\ settle(R, i, t) \in [Items -> Row]
         /\ updateStatus(R, i, t) \in [Items -> Row]
         /\ SetStatus(R, S, t) \in [Items -> Row]
         /\ SettleAll(R, S, t) \in [Items -> Row]
         /\ markStaleProcessingAsDropped(R) \in [Items -> Row]
<1>1. MaxItems \in Nat /\ R \in Tables(MaxItems)
  BY AllTables
<1>2. /\ requeueItem(R, i) \in Tables(MaxItems)
      /\ claimItem(R, i) \in Tables(MaxItems)
      /\ settle(R, i, t) \in Tables(MaxItems)
      /\ updateStatus(R, i, t) \in Tables(MaxItems)
      /\ SetStatus(R, S, t) \in Tables(MaxItems)
      /\ SettleAll(R, S, t) \in Tables(MaxItems)
      /\ markStaleProcessingAsDropped(R) \in Tables(MaxItems)
  BY <1>1, RequeueItemType, ClaimItemType, SettleType, UpdateStatusType, SetStatusType,
     SettleAllType, MarkStaleType
<1> QED
  BY <1>2, AllTables

\* The same for the statements without a status.
LEMMA ClaimRowTypes ==
  ASSUME NEW R \in [Items -> Row], NEW i \in Items
  PROVE  requeueItem(R, i) \in [Items -> Row] /\ claimItem(R, i) \in [Items -> Row]
<1>1. "queued" \in Status \ {"absent"}
  BY DEF Status
<1> QED
  BY <1>1, RowTypes

\* settle and updateStatus write one row.
LEMMA OneRow ==
  ASSUME NEW R \in [Items -> Row], NEW i \in Items, NEW t \in Status \ {"absent"}
  PROVE  /\ settle(R, i, t) = SettleAll(R, {i}, t)
         /\ updateStatus(R, i, t) = SetStatus(R, {i}, t)
<1>1. settle(R, i, t) \in [Items -> Row] /\ updateStatus(R, i, t) \in [Items -> Row]
  BY RowTypes
<1>2. \A j \in Items \ {i} : settle(R, i, t)[j] = R[j] /\ updateStatus(R, i, t)[j] = R[j]
  BY DEF settle, updateStatus, releaseClaim
<1> QED
  BY <1>1, <1>2 DEF SettleAll, SetStatus

-----------------------------------------------------------------------------
(***************************************************************************)
(* The steps that the actions are made of, each on an array q, rows R and  *)
(* held items H: what they leave is placed as well.                        *)
(***************************************************************************)
\* Items with a review round are strict, so the others are sure.
LEMMA NotStrictSure ==
  ASSUME NEW i, ~isStrictStateItem(msg[i])
  PROVE  Sure(i)
BY DEF Sure, mailboxDedupKey, isStrictStateItem

\* The created items are items.
LEMMA PlacedEntries ==
  ASSUME TypeOK, NEW q, NEW R, NEW H, Placed(q, R, H)
  PROVE  /\ Made \in SUBSET Items /\ Made \in SUBSET Nat
         /\ \A i : IsQueued(q, i) => i \in Made /\ i \in Items
<1>1. Made \subseteq Items /\ Made \subseteq Nat
  BY MadeItems DEF Made
<1>2. \A k \in 1..Len(q) : q[k] \in Made
  BY ElementOfSeq DEF Placed
<1> QED
  BY <1>1, <1>2 DEF IsQueued

\* The rows of S are settled; r has the other entries of q.
LEMMA SettlePlaced ==
  ASSUME NEW q, NEW R, NEW H, Placed(q, R, H), NEW S, NEW t \in Status \ {"absent", "processing"},
         NEW r \in Seq(Made), NEW G,
         \A j \in Items \ S : IsQueued(r, j) <=> IsQueued(q, j),
         t = "queued" => \A j \in S : IsQueued(r, j),
         \A j \in Items \ S : j \in H => j \in G, \A j \in Items : j \in G => j \in H,
         t = "dropped" /\ Droppable = {} => \A j \in S : j \in G => ~isStrictStateItem(msg[j]),
         OnePlace(r, G), Items # {}
  PROVE  Placed(r, SettleAll(R, S, t), G)
<1>1. R \in [Items -> Row] /\ RowsSafe(q, R, H)
  BY DEF Placed
<1>2. RowsSafe(r, SettleAll(R, S, t), G)
  BY <1>1, SettleSafe
<1>3. SettleAll(R, S, t) \in [Items -> Row]
  BY <1>1, RowTypes
<1> QED
  BY <1>2, <1>3 DEF Placed

\* The status of the rows of S, which this process has not claimed, is
\* written; r has the other entries of q.
LEMMA SetStatusPlaced ==
  ASSUME NEW q, NEW R, NEW H, Placed(q, R, H), NEW S, NEW t \in Status \ {"absent", "processing"},
         NEW r \in Seq(Made),
         \A j \in Items \ S : IsQueued(r, j) <=> IsQueued(q, j),
         t = "queued" => \A j \in S : IsQueued(r, j),
         \A j \in S : R[j].by = "self" => j \in H /\ t \in Requeueable,
         t = "dropped" /\ Droppable = {} => \A j \in S : j \in H => ~isStrictStateItem(msg[j]),
         OnePlace(r, H), Items # {}
  PROVE  Placed(r, SetStatus(R, S, t), H)
<1>1. R \in [Items -> Row] /\ RowsSafe(q, R, H)
  BY DEF Placed
<1>2. RowsSafe(r, SetStatus(R, S, t), H)
  BY <1>1, SetStatusSafe
<1>3. SetStatus(R, S, t) \in [Items -> Row]
  BY <1>1, RowTypes
<1> QED
  BY <1>2, <1>3 DEF Placed

\* An item of the array whose row this process has claimed is held.
LEMMA QueuedClaims ==
  ASSUME NEW q, NEW R, NEW H, Placed(q, R, H), NEW i \in Items, R[i].by = "self",
         IsQueued(q, i) \/ R[i].status \notin Requeueable \/ R[i].status = "queued"
  PROVE  i \in H /\ R[i].status \in Requeueable
BY DEF Placed, RowsSafe, RowSafe

\* Item i goes back into the array, unless it is there, and is not held any
\* more.
LEMMA RequeuePlaced ==
  ASSUME TypeOK, NEW q, NEW R, NEW H, Placed(q, R, H), NEW i \in Made, NEW p, NEW r,
         \/ r \in insertSorted(q, i, p) /\ (Sure(i) => ~IsQueued(q, i))
         \/ r = q /\ IsQueued(q, i),
         NEW G, \A j \in Items \ {i} : j \in G <=> j \in H, i \in G => i \in H, Sure(i) => i \notin G
  PROVE  Placed(r, requeueItem(R, i), G)
<1>1. /\ Made \in SUBSET Items /\ Made \in SUBSET Nat /\ q \in Seq(Made) /\ i \in Items
      /\ R \in [Items -> Row] /\ RowsSafe(q, R, H) /\ OnePlace(q, H)
  BY PlacedEntries DEF Placed
<1>2. r \in Seq(Made)
  BY <1>1, InsertType
<1>3. /\ \A j : IsQueued(r, j) <=> j = i \/ IsQueued(q, j)
      /\ \A j : AtMostOnce(q, j) /\ (j # i \/ ~IsQueued(q, i) \/ r = q) => AtMostOnce(r, j)
  BY <1>1, InsertEntries
<1>4. OnePlace(r, G)
  BY <1>1, <1>3 DEF OnePlace
<1>5. RowsSafe(r, requeueItem(R, i), G)
  BY <1>1, <1>3, RequeueSafe
<1>6. requeueItem(R, i) \in [Items -> Row]
  BY <1>1, ClaimRowTypes
<1> QED
  BY <1>2, <1>4, <1>5, <1>6 DEF Placed

\* The head of the array is claimed.
LEMMA ClaimPlaced ==
  ASSUME TypeOK, NEW q, NEW R, NEW H, Placed(q, R, H), NEW n \in Claimed(q, R),
         NEW r \in AfterClaim(q, n)
  PROVE  Placed(r, claimItem(R, q[n]), H \union {q[n]}) /\ q[n] \in Made /\ (Sure(q[n]) => q[n] \notin H)
<1>1. /\ Made \in SUBSET Items /\ q \in Seq(Made)
      /\ R \in [Items -> Row] /\ RowsSafe(q, R, H) /\ OnePlace(q, H)
  BY PlacedEntries DEF Placed
<1>2. /\ n \in 1..Len(q) /\ q[n] \in Made /\ IsQueued(q, q[n]) /\ claimable(R, q[n])
      /\ \A i : IsQueued(r, i) => IsQueued(q, i)
      /\ \A i : i # q[n] /\ IsQueued(q, i) /\ ~IsQueued(r, i) => ~claimable(R, i)
      /\ AtMostOnce(q, q[n]) => ~IsQueued(r, q[n])
      /\ \A i : AtMostOnce(q, i) => AtMostOnce(r, i)
  BY <1>1, ClaimEntries
<1>3. r \in Seq(Made)
  BY <1>1, KeptType DEF AfterClaim
<1>4. OnePlace(r, H \union {q[n]}) /\ (Sure(q[n]) => q[n] \notin H)
  BY <1>1, <1>2 DEF OnePlace
<1>5. RowsSafe(r, claimItem(R, q[n]), H \union {q[n]})
  BY <1>1, <1>2, ClaimSafe
<1>6. claimItem(R, q[n]) \in [Items -> Row]
  BY <1>1, <1>2, ClaimRowTypes
<1> QED
  BY <1>2, <1>3, <1>4, <1>5, <1>6 DEF Placed

\* Nothing is claimed, and what may not be claimed is thrown out.
LEMMA ThrowPlaced ==
  ASSUME TypeOK, NEW q, NEW R, NEW H, Placed(q, R, H), Claimed(q, R) = {}, NEW r \in OnlyLocked(q)
  PROVE  Placed(r, R, H)
<1>1. /\ Made \in SUBSET Items /\ q \in Seq(Made)
      /\ R \in [Items -> Row] /\ RowsSafe(q, R, H) /\ OnePlace(q, H)
  BY PlacedEntries DEF Placed
<1>2. /\ \A i : IsQueued(r, i) => IsQueued(q, i)
      /\ \A i : IsQueued(q, i) /\ ~IsQueued(r, i) => ~claimable(R, i)
      /\ \A i : AtMostOnce(q, i) => AtMostOnce(r, i)
  BY <1>1, ThrowEntries
<1>3. r \in Seq(Made)
  BY <1>1, KeptType DEF OnlyLocked
<1>4. OnePlace(r, H)
  BY <1>1, <1>2 DEF OnePlace
<1>5. RowsSafe(r, R, H)
  BY <1>1, <1>2, ThrowSafe
<1> QED
  BY <1>1, <1>3, <1>4, <1>5 DEF Placed

\* dequeueById(i): the item is claimed, or its entry is thrown out.
LEMMA TakePlaced ==
  ASSUME TypeOK, NEW q, NEW R, NEW H, Placed(q, R, H), NEW i \in Made, NEW r \in RemoveFirstOf(q, i)
  PROVE  /\ Takes(q, R, i) => Placed(r, claimItem(R, i), H \union {i})
         /\ ~Takes(q, R, i) => Placed(r, R, H)
         /\ Sure(i) => ~IsQueued(r, i)
<1>1. /\ Made \in SUBSET Items /\ q \in Seq(Made) /\ i \in Items
      /\ R \in [Items -> Row] /\ RowsSafe(q, R, H) /\ OnePlace(q, H)
  BY PlacedEntries DEF Placed
<1>2. /\ \A j : IsQueued(r, j) => IsQueued(q, j)
      /\ \A j : j # i /\ IsQueued(q, j) => IsQueued(r, j)
      /\ AtMostOnce(q, i) => ~IsQueued(r, i)
      /\ \A j : AtMostOnce(q, j) => AtMostOnce(r, j)
  BY <1>1, RemoveFirstEntries
<1>3. r \in Seq(Made)
  BY <1>1, RemoveFirstType
<1>4. OnePlace(r, H \union {i}) /\ OnePlace(r, H) /\ (Sure(i) => ~IsQueued(r, i))
  BY <1>1, <1>2 DEF OnePlace
<1>5. claimItem(R, i) \in [Items -> Row]
  BY <1>1, ClaimRowTypes
<1>6. ASSUME Takes(q, R, i) PROVE RowsSafe(r, claimItem(R, i), H \union {i})
  BY <1>1, <1>2, <1>6, ClaimSafe DEF Takes
<1>7. ASSUME ~Takes(q, R, i) PROVE RowsSafe(r, R, H)
  BY <1>1, <1>2, <1>7, ThrowSafe DEF Takes
<1> QED
  BY <1>1, <1>3, <1>4, <1>5, <1>6, <1>7 DEF Placed

\* An item that is not in the array and has no dropped row may be held.
LEMMA HoldPlaced ==
  ASSUME NEW q, NEW R, NEW H, Placed(q, R, H), NEW i,
         Sure(i) => ~IsQueued(q, i),
         isStrictStateItem(msg[i]) => R[i].status # "dropped"
  PROVE  Placed(q, R, H \union {i})
<1>1. OnePlace(q, H \union {i})
  BY DEF Placed, OnePlace
<1>2. RowsSafe(q, R, H \union {i})
  BY DEF Placed, RowsSafe, RowSafe
<1> QED
  BY <1>1, <1>2 DEF Placed

-----------------------------------------------------------------------------
(***************************************************************************)
(* What is left to show of an action: frames for those that move no        *)
(* worker, and for those that move one.                                    *)
(***************************************************************************)
\* What the other workers hold.
Others(w) == {hand[v] : v \in {u \in Workers \ {w} : Busy(u)}}

\* The serial loop is one worker.
LEMMA OneWorker ==
  ASSUME Serial, NEW v \in Workers, NEW w \in Workers
  PROVE  v = w
<1>1. \E x : Workers = {x}
  BY MailboxAssumption, FS_Singleton DEF Serial
<1> QED
  BY <1>1

\* The serial loop holds what is in its hand and its batch.
LEMMA SerialHeld ==
  ASSUME Serial, NEW w \in Workers
  PROVE  Others(w) = {}
BY OneWorker DEF Others

\* What is held, seen from a worker that moves to stage s with item i.
LEMMA HeldSplit ==
  ASSUME TypeOK, NEW w \in Workers
  PROVE  /\ HeldItems = batch \union Others(w) \union (IF Busy(w) THEN {hand[w]} ELSE {})
         /\ \A i, s : hand' = [hand EXCEPT ![w] = i] /\ stage' = [stage EXCEPT ![w] = s] =>
              HeldItems' = batch' \union Others(w) \union
                             (IF s \in {"claimed", "deliberating", "working"} THEN {i} ELSE {})
<1>1. HeldItems = batch \union Others(w) \union (IF Busy(w) THEN {hand[w]} ELSE {})
  BY DEF HeldItems, Others
<1>2. ASSUME NEW i, NEW s, hand' = [hand EXCEPT ![w] = i], stage' = [stage EXCEPT ![w] = s]
      PROVE  HeldItems' = batch' \union Others(w) \union
                            (IF s \in {"claimed", "deliberating", "working"} THEN {i} ELSE {})
  <2>1. /\ \A v \in Workers \ {w} : (Busy(v)' <=> Busy(v)) /\ hand'[v] = hand[v]
        /\ Busy(w)' <=> s \in {"claimed", "deliberating", "working"}
        /\ hand'[w] = i
    BY <1>2 DEF Busy, TypeOK
  <2>2. HeldItems' = batch' \union {hand'[v] : v \in {u \in Workers : Busy(u)'}}
    BY DEF HeldItems
  <2> QED
    BY <2>1, <2>2 DEF Others
<1> QED
  BY <1>1, <1>2

\* An item in a hand is created; if it is sure, it is nowhere else.
LEMMA InHand ==
  ASSUME TypeOK, Created, PlaceInv, NEW w \in Workers, Busy(w)
  PROVE  /\ hand[w] \in Made /\ hand[w] \in Items /\ hand[w] \in HeldItems /\ hand[w] \notin batch
         /\ Sure(hand[w]) => ~IsQueued(queue, hand[w]) /\ hand[w] \notin Others(w)
         /\ \A v \in Workers \ {w} : Busy(v) /\ Sure(hand[v]) => hand[v] # hand[w]
<1>1. hand[w] \in Made /\ hand[w] \in Items
  BY MadeItems DEF Created, Busy
<1>2. hand[w] \in HeldItems
  BY DEF HeldItems
<1>3. \A v \in Workers \ {w} : Busy(v) /\ Sure(hand[v]) => hand[v] # hand[w]
  BY DEF PlaceInv, OneHand
<1>4. Sure(hand[w]) => hand[w] \notin Others(w)
  BY DEF PlaceInv, OneHand, Others
<1>5. Sure(hand[w]) => ~IsQueued(queue, hand[w])
  BY <1>1, <1>2 DEF PlaceInv, Placed, OnePlace
<1> QED
  BY <1>1, <1>2, <1>3, <1>4, <1>5 DEF PlaceInv, OneHand

\* What is placed now is placed afterwards if no item is created.
LEMMA SameMessages ==
  ASSUME UNCHANGED msg, Placed(queue', rows', HeldItems')
  PROVE  Placed(queue, rows, HeldItems)'
<1>1. Made' = Made
  BY DEF Made
<1>2. OnePlace(queue, HeldItems)'
  BY <1>1 DEF Placed, OnePlace, Sure
<1>3. RowsSafe(queue, rows, HeldItems)'
  BY DEF Placed, RowsSafe, RowSafe, isStrictStateItem
<1> QED
  BY <1>1, <1>2, <1>3 DEF Placed

\* No worker moves.
LEMMA StillFrame ==
  ASSUME PlaceInv, UNCHANGED <<msg, hand, stage, batch, locks>>,
         Placed(queue', rows', HeldItems),
         \A w \in Workers : stage[w] = "claimed" /\ ~isStrictStateItem(msg[hand[w]]) =>
           rows'[hand[w]].status # "queued"
  PROVE  PlaceInv'
<1>1. HeldItems' = HeldItems
  BY DEF HeldItems, Busy
<1>2. Placed(queue, rows, HeldItems)'
  BY <1>1, SameMessages
<1>3. Shape'
  BY DEF PlaceInv, Shape, isStrictStateItem, Serial
<1>4. OneHand'
  BY DEF PlaceInv, OneHand, Busy, Sure
<1>5. ClaimKept'
  BY DEF ClaimKept, isStrictStateItem
<1> QED
  BY <1>2, <1>3, <1>4, <1>5 DEF PlaceInv

\* Worker w moves to stage s with item i.
LEMMA MoveFrame ==
  ASSUME TypeOK, PlaceInv, UNCHANGED msg, NEW w \in Workers, NEW i, NEW s \in Stages,
         hand' = [hand EXCEPT ![w] = i], stage' = [stage EXCEPT ![w] = s],
         Placed(queue', rows', HeldItems'),
         Serial => \A k \in Keys : locks'[k] = NoItem,
         s = "idle" => i = NoItem,
         s = "deliberating" => ~isStrictStateItem(msg[i]),
         batch' # {} => Serial /\ s = "working",
         s \in {"claimed", "deliberating", "working"} =>
           i \notin batch' /\ (Sure(i) => i \notin Others(w)),
         \A v \in Workers \ {w} : stage[v] = "claimed" /\ ~isStrictStateItem(msg[hand[v]]) =>
           rows'[hand[v]].status # "queued",
         s = "claimed" /\ ~isStrictStateItem(msg[i]) => rows'[i].status # "queued"
  PROVE  PlaceInv'
<1>1. Placed(queue, rows, HeldItems)'
  BY SameMessages
<1>2. /\ hand'[w] = i /\ stage'[w] = s /\ Serial' = Serial
      /\ \A v \in Workers \ {w} : hand'[v] = hand[v] /\ stage'[v] = stage[v]
  BY DEF TypeOK, Serial
<1>3. ASSUME NEW v \in Workers, v # w PROVE batch' = {}
  BY <1>3, OneWorker
<1>4. Shape'
  <2>1. \A v \in Workers : /\ stage'[v] = "idle" => hand'[v] = NoItem
                           /\ stage'[v] = "deliberating" => ~isStrictStateItem(msg[hand'[v]])
    BY <1>2 DEF PlaceInv, Shape
  <2>2. batch' # {} => Serial /\ \A v \in Workers : stage'[v] = "working"
    BY <1>2, <1>3
  <2> QED
    BY <1>2, <2>1, <2>2 DEF Shape, isStrictStateItem
<1>5. OneHand'
  <2> DEFINE busy(v) == stage'[v] \in {"claimed", "deliberating", "working"}
  <2>1. ASSUME NEW u \in Workers, NEW v \in Workers, u # v, busy(u), busy(v), Sure(hand'[u])
        PROVE  hand'[u] # hand'[v]
    <3>1. CASE u = w
      BY <1>2, <2>1, <3>1 DEF Others, Busy
    <3>2. CASE v = w
      <4>1. hand'[u] \in Others(w)
        BY <1>2, <2>1, <3>2 DEF Others, Busy
      <4> QED
        BY <1>2, <2>1, <3>2, <4>1
    <3>3. CASE u # w /\ v # w
      BY <1>2, <2>1, <3>3 DEF PlaceInv, OneHand, Busy
    <3> QED
      BY <3>1, <3>2, <3>3
  <2>2. \A v \in Workers : busy(v) => hand'[v] \notin batch'
    BY <1>2, <1>3
  <2>3. (\A v : Busy(v)' <=> busy(v)) /\ (\A j : Sure(j)' <=> Sure(j))
    BY DEF Busy, Sure
  <2> HIDE DEF busy
  <2> QED
    BY <2>1, <2>2, <2>3 DEF OneHand
<1>6. ClaimKept'
  BY <1>2 DEF ClaimKept, isStrictStateItem
<1> QED
  BY <1>1, <1>4, <1>5, <1>6 DEF PlaceInv

-----------------------------------------------------------------------------
(***************************************************************************)
(* Delivery, and the workers.                                              *)
(***************************************************************************)
\* What an action starts from.
LEMMA StartPlaces ==
  ASSUME TypeOK, PlaceInv
  PROVE  /\ Placed(queue, rows, HeldItems) /\ rows \in [Items -> Row]
         /\ RowsSafe(queue, rows, HeldItems) /\ OnePlace(queue, HeldItems)
         /\ Made \in SUBSET Items /\ Made \in SUBSET Nat /\ queue \in Seq(Made)
         /\ \A i : IsQueued(queue, i) => i \in Made /\ i \in Items
BY PlacedEntries DEF PlaceInv, Placed

\* A row that exists is that of an item that was created.
LEMMA StoredMade ==
  ASSUME TypeOK, Created, NEW i \in Items, rows[i].status # "absent"
  PROVE  i \in Made
BY MadeItems DEF Created, Tables, Made, Items

\* An old row is queued again: its worker, if any, had a strict item dropped
\* by identifier.
LEMMA ReinjectPlaced ==
  ASSUME TypeOK, Created, PlaceInv, NEW i \in Items, NEW p, NEW H,
         mailboxDedupKey(msg[i]) # <<>>, rows[i].status = "dropped",
         reinjectExistingRow(i, p), Placed(queue, rows, H)
  PROVE  Placed(queue', rows', H)
<1> USE StartPlaces
<1>1. i \in Made
  BY StoredMade
<1>2. isStrictStateItem(msg[i])
  BY NotStrictSure DEF mailboxDedupKey, isStrictStateItem
<1>3. Sure(i) => i \notin H
  BY <1>2 DEF Sure, Placed, RowsSafe, RowSafe
<1>4. CASE IsQueued(queue, i)
  BY <1>1, <1>3, <1>4, RequeuePlaced DEF reinjectExistingRow
<1>5. CASE ~IsQueued(queue, i)
  <2>1. queue' \in insertSorted(queue, i, prio') /\ rows' = requeueItem(rows, i)
    BY <1>5 DEF reinjectExistingRow
  <2> QED
    BY <1>1, <1>3, <1>5, <2>1, RequeuePlaced
<1> QED
  BY <1>4, <1>5

\* A new item is placed: it is in the array, nobody has it, and its row, if
\* the INSERT did not throw, is queued.
LEMMA InsertNewPlaced ==
  ASSUME TypeOK, Created, PlaceInv, NEW m \in Messages, NextItem \in Items, insertNew(NextItem, m),
         UNCHANGED <<hand, stage, batch, locks, hbId, served>>
  PROVE  PlaceInv'
<1> USE StartPlaces
<1> DEFINE n == Len(msg) + 1
<1>1. /\ Len(msg) \in Nat /\ n \in Items /\ n \notin Made /\ n \in Nat
      /\ msg' = Append(msg, m) /\ Len(msg') = n /\ Made' = Made \union {n}
      /\ Made' \in SUBSET Items /\ Made' \in SUBSET Nat
  <2>1. Len(msg) \in Nat /\ n \in Items /\ n \notin Made /\ n \in Nat
    BY MadeItems DEF NextItem, Made
  <2>2. msg' = Append(msg, m) /\ Len(msg') = n
    BY DEF insertNew, TypeOK
  <2> QED
    BY <2>1, <2>2 DEF Made
<1>2. \A i \in Made : msg'[i] = msg[i]
  BY <1>1 DEF TypeOK, Made
<1>3. /\ ~IsQueued(queue, n) /\ rows[n].status = "absent" /\ n \notin HeldItems
      /\ HeldItems' = HeldItems
  <2>1. rows[n].status = "absent"
    BY <1>1, StoredMade
  <2>2. HeldItems \subseteq Made
    BY InHand DEF HeldItems, Created
  <2>3. HeldItems' = HeldItems
    BY DEF HeldItems, Busy
  <2> QED
    BY <1>1, <2>1, <2>2, <2>3
<1>4. queue \in Seq(Made') /\ queue' \in Seq(Made') /\ queue' \in insertSorted(queue, n, prio')
  <2>1. queue \in Seq(Made')
    BY <1>1, SeqMonotonic
  <2> QED
    BY <1>1, <2>1, InsertType DEF insertNew, NextItem
<1> HIDE DEF n
<1>5. /\ \A j : IsQueued(queue', j) <=> j = n \/ IsQueued(queue, j)
      /\ \A j : AtMostOnce(queue, j) /\ (j # n \/ ~IsQueued(queue, n)) => AtMostOnce(queue', j)
  <2> DEFINE S == Made'
  <2>1. S \in SUBSET Nat /\ queue \in Seq(S) /\ n \in S
    BY <1>1, <1>4
  <2> HIDE DEF S
  <2> QED
    BY <1>4, <2>1, InsertEntries
<1>6. \A j \in Made : Sure(j)' <=> Sure(j)
  BY <1>2 DEF Sure, mailboxDedupKey
<1>7. OnePlace(queue, HeldItems)'
  <2>1. AtMostOnce(queue', n)
    <3>1. AtMostOnce(queue, n)
      BY <1>3 DEF AtMostOnce, IsQueued
    <3> QED
      BY <1>3, <1>5, <3>1
  <2>2. \A j \in Made : Sure(j) => AtMostOnce(queue', j) /\ (j \in HeldItems => ~IsQueued(queue', j))
    BY <1>1, <1>5 DEF OnePlace
  <2>3. \A j \in Made' : Sure(j)' =>
          AtMostOnce(queue', j) /\ (j \in HeldItems' => ~IsQueued(queue', j))
    BY <1>1, <1>3, <1>6, <2>1, <2>2
  <2> QED
    BY <2>3 DEF OnePlace, AtMostOnce, IsQueued
<1>8. /\ rows' \in [Items -> Row] /\ \A j \in Items \ {n} : rows'[j] = rows[j]
      /\ rows'[n] = rows[n] \/ (rows'[n].status = "queued" /\ rows'[n].by = "none")
  <2>1. Waiting(m.prio) \in Row
    BY MailboxAssumption DEF MessageType, Waiting, Row, Status
  <2>2. rows' = [rows EXCEPT ![n] = Waiting(m.prio)] \/ rows' = rows
    BY DEF insertNew, NextItem, save, n
  <2>3. Waiting(m.prio).status = "queued" /\ Waiting(m.prio).by = "none"
    BY DEF Waiting
  <2> QED
    BY <1>1, <2>1, <2>2, <2>3
<1>9. RowsSafe(queue, rows, HeldItems)'
  <2> SUFFICES ASSUME NEW j \in Items
               PROVE  RowSafe(j, rows[j], IsQueued(queue, j), j \in HeldItems)'
    BY DEF RowsSafe
  <2>1. RowSafe(j, rows[j], IsQueued(queue, j), j \in HeldItems)
    BY DEF RowsSafe
  <2>2. CASE j \in Made
    <3>1. msg'[j] = msg[j] /\ rows'[j] = rows[j] /\ (IsQueued(queue', j) <=> IsQueued(queue, j))
      BY <1>1, <1>2, <1>5, <1>8, <2>2
    <3> QED
      BY <1>3, <2>1, <3>1 DEF RowSafe, isStrictStateItem, IsQueued
  <2>3. CASE j \notin Made /\ j # n
    <3>1. rows'[j].status = "absent"
      BY <1>8, <2>3, StoredMade
    <3> QED
      BY <1>8, <2>1, <2>3, <3>1 DEF RowSafe, Requeueable
  <2>4. CASE j = n
    <3>1. IsQueued(queue', n)
      BY <1>5
    <3> QED
      BY <1>3, <1>8, <2>1, <2>4, <3>1 DEF RowSafe, Requeueable, IsQueued
  <2> QED
    BY <2>2, <2>3, <2>4
<1>10. \A w \in Workers : stage[w] # "idle" => hand[w] \in Made
  BY DEF Created
<1>11. Shape'
  <2>1. \A w \in Workers : stage[w] = "deliberating" => msg'[hand[w]] = msg[hand[w]]
    BY <1>2, <1>10
  <2> QED
    BY <2>1 DEF PlaceInv, Shape, Serial, isStrictStateItem
<1>12. OneHand'
  <2>1. \A w \in Workers : Busy(w) => hand[w] \in Made
    BY InHand
  <2>2. \A w \in Workers : Busy(w)' <=> Busy(w)
    BY DEF Busy
  <2> QED
    BY <1>6, <2>1, <2>2 DEF PlaceInv, OneHand, Sure
<1>13. ClaimKept'
  <2>1. \A w \in Workers : stage[w] = "claimed" =>
          msg'[hand[w]] = msg[hand[w]] /\ rows'[hand[w]] = rows[hand[w]]
    BY <1>1, <1>2, <1>8, <1>10
  <2> QED
    BY <2>1 DEF PlaceInv, ClaimKept, isStrictStateItem
<1>14. Placed(queue, rows, HeldItems)'
  BY <1>4, <1>7, <1>8, <1>9 DEF Placed
<1> QED
  BY <1>11, <1>12, <1>13, <1>14 DEF PlaceInv

\* A claimed item that is not strict is not in the array.
LEMMA ClaimedApart ==
  ASSUME TypeOK, Created, PlaceInv, NEW w \in Workers, Busy(w), ~isStrictStateItem(msg[hand[w]])
  PROVE  /\ ~IsQueued(queue, hand[w]) /\ hand[w] \in Items /\ hand[w] \in Made
         /\ \A v \in Workers \ {w} : Busy(v) => hand[v] # hand[w]
<1>1. Sure(hand[w])
  BY NotStrictSure
<1>2. \A v \in Workers \ {w} : Busy(v) => hand[w] # hand[v]
  BY <1>1 DEF PlaceInv, OneHand
<1> QED
  BY <1>1, <1>2, InHand

\* enqueue.
LEMMA EnqueuePlaces ==
  ASSUME TypeOK, Created, PlaceInv, NEW m \in Messages, enqueue(m)
  PROVE  PlaceInv'
<1> USE StartPlaces
<1>1. UNCHANGED <<hand, stage, batch, locks, hbId, served>>
  BY DEF enqueue
<1>2. CASE \E i \in MergeTargets(m) : rows' = updateStatus(rows, i, "queued") /\ UNCHANGED <<msg, prio, queue>>
  <2>1. PICK i \in MergeTargets(m) : rows' = updateStatus(rows, i, "queued")
    BY <1>2
  <2>2. i \in Items /\ IsQueued(queue, i) /\ "queued" \in Status \ {"absent", "processing"}
    BY DEF MergeTargets, Status
  <2>3. rows' = SetStatus(rows, {i}, "queued")
    BY <2>1, <2>2, OneRow
  <2>4. rows[i].by = "self" => i \in HeldItems
    BY <2>2, QueuedClaims
  <2>5. Placed(queue, rows', HeldItems)
    BY <2>2, <2>3, <2>4, SetStatusPlaced DEF Requeueable
  <2>6. \A w \in Workers : stage[w] = "claimed" /\ ~isStrictStateItem(msg[hand[w]]) =>
          rows'[hand[w]].status # "queued"
    <3> SUFFICES ASSUME NEW w \in Workers, stage[w] = "claimed", ~isStrictStateItem(msg[hand[w]])
                 PROVE  rows'[hand[w]].status # "queued"
      OBVIOUS
    <3>1. hand[w] # i /\ hand[w] \in Items
      BY <2>2, ClaimedApart DEF Busy
    <3>2. rows'[hand[w]] = rows[hand[w]]
      BY <2>1, <3>1 DEF updateStatus
    <3> QED
      BY <3>2 DEF PlaceInv, ClaimKept
  <2> QED
    BY <1>1, <1>2, <2>5, <2>6, StillFrame
<1>3. CASE \E i \in SameRound(m) : /\ resolveReinjectDecision(rows[i].status) = "reuse"
                                   /\ reinjectExistingRow(i, m.prio) /\ UNCHANGED msg
  <2>1. PICK i \in SameRound(m) : /\ resolveReinjectDecision(rows[i].status) = "reuse"
                                  /\ reinjectExistingRow(i, m.prio)
    BY <1>3
  <2>2. i \in Items /\ mailboxDedupKey(msg[i]) # <<>> /\ rows[i].status = "dropped"
    BY <2>1 DEF SameRound, resolveReinjectDecision
  <2>3. Placed(queue', rows', HeldItems)
    BY <2>1, <2>2, ReinjectPlaced
  <2>4. \A w \in Workers : stage[w] = "claimed" /\ ~isStrictStateItem(msg[hand[w]]) =>
          rows'[hand[w]].status # "queued"
    <3> SUFFICES ASSUME NEW w \in Workers, stage[w] = "claimed", ~isStrictStateItem(msg[hand[w]])
                 PROVE  rows'[hand[w]].status # "queued"
      OBVIOUS
    <3>1. hand[w] # i
      BY <2>2 DEF mailboxDedupKey, isStrictStateItem
    <3>2. hand[w] \in Items /\ rows'[hand[w]] = rows[hand[w]]
      BY <2>1, <2>2, <3>1, RequeueRow, ClaimedApart DEF reinjectExistingRow, Busy
    <3> QED
      BY <3>2 DEF PlaceInv, ClaimKept
  <2> QED
    BY <1>1, <1>3, <2>3, <2>4, StillFrame
<1>4. CASE NextItem \in Items /\ insertNew(NextItem, m)
  BY <1>1, <1>4, InsertNewPlaced
<1> QED
  BY <1>2, <1>3, <1>4 DEF enqueue

\* Rows of claimed items stay as they are when a step writes others.
LEMMA OtherClaims ==
  ASSUME TypeOK, Created, PlaceInv, NEW w \in Workers, Busy(w),
         \A j \in Items \ {hand[w]} : rows'[j].status = "queued" => rows[j].status = "queued"
  PROVE  \A v \in Workers \ {w} : stage[v] = "claimed" /\ ~isStrictStateItem(msg[hand[v]]) =>
           rows'[hand[v]].status # "queued"
<1> SUFFICES ASSUME NEW v \in Workers \ {w}, stage[v] = "claimed", ~isStrictStateItem(msg[hand[v]])
             PROVE  rows'[hand[v]].status # "queued"
  OBVIOUS
<1>1. hand[v] \in Items /\ hand[v] # hand[w]
  BY ClaimedApart DEF Busy
<1> QED
  BY <1>1 DEF PlaceInv, ClaimKept

\* dequeue and dequeueNothing.
LEMMA DequeuePlaces ==
  ASSUME TypeOK, Created, PlaceInv, NEW w \in Workers, dequeue(w) \/ dequeueNothing(w)
  PROVE  PlaceInv'
<1> USE StartPlaces
<1>1. CASE dequeueNothing(w)
  <2>1. Placed(queue', rows', HeldItems)
    BY <1>1, ThrowPlaced DEF dequeueNothing
  <2> QED
    BY <1>1, <2>1, StillFrame DEF dequeueNothing, PlaceInv, ClaimKept
<1>2. CASE dequeue(w)
  <2>1. PICK n \in Claimed(queue, rows) :
          /\ rows' = claimItem(rows, queue[n])
          /\ queue' \in AfterClaim(queue, n)
          /\ hand' = [hand EXCEPT ![w] = queue[n]]
    BY <1>2 DEF dequeue
  <2>2. /\ stage' = [stage EXCEPT ![w] = "claimed"] /\ UNCHANGED <<msg, prio, batch, locks, served>>
        /\ stage[w] = "idle"
    BY <1>2 DEF dequeue
  <2>3. batch = {}
    BY <2>2 DEF PlaceInv, Shape
  <2>4. HeldItems' = HeldItems \union {queue[n]} /\ HeldItems = Others(w)
    BY <2>1, <2>2, <2>3, HeldSplit DEF Busy
  <2>5. /\ Placed(queue', rows', HeldItems') /\ queue[n] \in Made
        /\ Sure(queue[n]) => queue[n] \notin Others(w)
    BY <2>1, <2>4, ClaimPlaced
  <2>6. \A j \in Items : rows'[j].status = "queued" => rows[j].status = "queued" /\ j # queue[n]
    BY <2>1, <2>5, ClaimRow
  <2>7. \A v \in Workers \ {w} : stage[v] = "claimed" /\ ~isStrictStateItem(msg[hand[v]]) =>
          rows'[hand[v]].status # "queued"
    BY <2>6, ClaimedApart DEF PlaceInv, ClaimKept, Busy
  <2> QED
    BY <2>1, <2>2, <2>3, <2>5, <2>6, <2>7, MoveFrame DEF Stages, PlaceInv, Shape
<1> QED
  BY <1>1, <1>2

\* A worker that puts its item back does not hold it any more.
LEMMA PutBackPlaced ==
  ASSUME TypeOK, Created, PlaceInv, NEW w \in Workers, Busy(w), NEW q \in insertSorted(queue, hand[w], prio)
  PROVE  Placed(q, requeueItem(rows, hand[w]), (HeldItems \ {hand[w]}) \union Others(w))
<1> USE StartPlaces
<1> DEFINE G == (HeldItems \ {hand[w]}) \union Others(w)
<1>1. Others(w) \subseteq HeldItems
  BY HeldSplit
<1>2. /\ \A j \in Items \ {hand[w]} : j \in G <=> j \in HeldItems
      /\ hand[w] \in G => hand[w] \in HeldItems
      /\ hand[w] \in Made /\ (Sure(hand[w]) => hand[w] \notin G /\ ~IsQueued(queue, hand[w]))
  BY <1>1, InHand
<1> HIDE DEF G
<1>3. Placed(q, requeueItem(rows, hand[w]), G)
  BY <1>2, RequeuePlaced
<1> QED
  BY <1>3 DEF G

\* lockEntities and unlockEntities.
LEMMA LockPlaces ==
  ASSUME TypeOK, Created, PlaceInv, NEW w \in Workers, lockEntities(w) \/ unlockEntities(w)
  PROVE  PlaceInv'
<1> USE StartPlaces
<1>1. UNCHANGED <<msg, prio, batch, hbId, served>>
  BY DEF lockEntities, unlockEntities
<1>2. batch = {} \/ stage[w] = "working"
  BY DEF PlaceInv, Shape
<1>3. CASE unlockEntities(w)
  <2>1. /\ rows' = rows /\ queue' = queue /\ stage[w] = "resolved"
        /\ hand' = [hand EXCEPT ![w] = NoItem] /\ stage' = [stage EXCEPT ![w] = "idle"]
    BY <1>3 DEF unlockEntities
  <2>2. HeldItems' = HeldItems
    BY <1>1, <2>1, HeldSplit DEF Busy
  <2>3. Serial => \A k \in Keys : locks'[k] = NoItem
    BY <1>3 DEF unlockEntities, PlaceInv, Shape
  <2> QED
    BY <1>1, <1>2, <2>1, <2>2, <2>3, MoveFrame DEF Stages, PlaceInv, ClaimKept
<1>4. CASE lockEntities(w) /\ \A k \in lockKeysFor(msg[hand[w]]) : locks[k] = NoItem
  <2>1. /\ rows' = rows /\ queue' = queue /\ stage[w] = "claimed" /\ ~Serial
        /\ hand' = [hand EXCEPT ![w] = hand[w]] /\ stage' = [stage EXCEPT ![w] = "working"]
    BY <1>4 DEF lockEntities, TypeOK
  <2>2. HeldItems' = HeldItems
    BY <1>1, <2>1, HeldSplit DEF Busy
  <2>3. Sure(hand[w]) => hand[w] \notin Others(w)
    BY <2>1, InHand DEF Busy
  <2> QED
    BY <1>1, <1>2, <2>1, <2>2, <2>3, MoveFrame DEF Stages, PlaceInv, ClaimKept
<1>5. CASE lockEntities(w) /\ ~\A k \in lockKeysFor(msg[hand[w]]) : locks[k] = NoItem
  <2>1. putBack(w) /\ UNCHANGED locks /\ stage[w] = "claimed" /\ ~Serial
    BY <1>5 DEF lockEntities
  <2>2. /\ hand' = [hand EXCEPT ![w] = NoItem] /\ stage' = [stage EXCEPT ![w] = "idle"]
        /\ rows' = requeueItem(rows, hand[w]) /\ queue' \in insertSorted(queue, hand[w], prio)
    BY <2>1 DEF putBack
  <2>3. Busy(w) /\ hand[w] \in Items
    BY <2>1, InHand DEF Busy
  <2>4. HeldItems' = (HeldItems \ {hand[w]}) \union Others(w)
    <3>1. batch = {} /\ batch' = {}
      BY <1>1, <1>2, <2>1
    <3>2. HeldItems = Others(w) \union {hand[w]}
      BY <2>3, <3>1, HeldSplit
    <3>3. HeldItems' = batch' \union Others(w) \union
                        (IF "idle" \in {"claimed", "deliberating", "working"} THEN {NoItem} ELSE {})
      BY <2>2, HeldSplit
    <3> QED
      BY <3>1, <3>2, <3>3
  <2>5. Placed(queue', rows', HeldItems')
    BY <2>2, <2>3, <2>4, PutBackPlaced
  <2>6. \A j \in Items \ {hand[w]} : rows'[j].status = "queued" => rows[j].status = "queued"
    BY <2>2, <2>3, RequeueRow
  <2> QED
    BY <1>1, <1>2, <2>1, <2>2, <2>3, <2>5, <2>6, OtherClaims, MoveFrame DEF Stages
<1> QED
  BY <1>3, <1>4, <1>5

\* The end of a turn, whose batch gets status t: first the item in hand is
\* settled, and is the one entry that may change, then the batch.
LEMMA EndTurnPlaces ==
  ASSUME TypeOK, Created, PlaceInv, NEW w \in Workers, stage[w] = "working",
         NEW s \in Status \ {"absent", "processing"}, NEW t \in {"queued", "completed"}, NEW Q,
         \A q \in Q :
           /\ q \in Seq(Made)
           /\ \A j : j # hand[w] => (IsQueued(q, j) <=> IsQueued(queue, j))
           /\ s = "queued" => IsQueued(q, hand[w])
           /\ \A j : AtMostOnce(queue, j) /\ (j # hand[w] \/ ~IsQueued(queue, hand[w])) =>
                AtMostOnce(q, j),
         EndTurn(w, s, Q, t), UNCHANGED <<msg, locks>>
  PROVE  PlaceInv'
<1> USE StartPlaces
<1> DEFINE h == hand[w]
           R1 == settle(rows, h, s)
           G1 == batch \union Others(w)
<1>1. /\ Busy(w) /\ h \in Made /\ h \in Items /\ h \notin batch
      /\ Sure(h) => ~IsQueued(queue, h) /\ h \notin Others(w)
  BY InHand DEF Busy
<1>2. HeldItems = batch \union Others(w) \union {h}
  BY <1>1, HeldSplit
<1>3. PICK q \in Q : queue' \in IF t = "completed" THEN Without(q, batch)
                               ELSE Loaded(q, batch, prio)
  BY DEF EndTurn
<1>4. /\ q \in Seq(Made)
      /\ \A j : j # h => (IsQueued(q, j) <=> IsQueued(queue, j))
      /\ s = "queued" => IsQueued(q, h)
      /\ \A j : AtMostOnce(queue, j) /\ (j # h \/ ~IsQueued(queue, h)) => AtMostOnce(q, j)
  OBVIOUS
<1>5. rows' = SettleAll(R1, batch, t) /\ batch' = {} /\ Leave(w)
  BY DEF EndTurn
<1>6. batch # {} => Serial /\ Others(w) = {}
  BY SerialHeld DEF PlaceInv, Shape
<1>7. Placed(q, R1, G1)
  <2>1. OnePlace(q, G1)
    BY <1>1, <1>2, <1>4 DEF OnePlace
  <2>2. Sure(h) => h \notin G1
    BY <1>1
  <2>3. \A j \in Items : j # h => (j \in HeldItems <=> j \in G1)
    BY <1>2
  <2>4. \A j \in Items : j \in G1 => j \in HeldItems
    BY <1>2
  <2>5. Droppable = {} => h \notin G1
    BY <2>2 DEF Sure
  <2> HIDE DEF G1
  <2>6. Placed(q, SettleAll(rows, {h}, s), G1)
    BY <1>1, <1>4, <2>1, <2>3, <2>4, <2>5, SettlePlaced
  <2> QED
    BY <1>1, <2>6, OneRow
<1>8. HeldItems' = Others(w)
  <2>1. \E i, x : /\ hand' = [hand EXCEPT ![w] = i] /\ stage' = [stage EXCEPT ![w] = x]
                  /\ x \notin {"claimed", "deliberating", "working"}
    <3>1. hand = [hand EXCEPT ![w] = hand[w]]
      BY DEF TypeOK
    <3> QED
      BY <1>5, <3>1 DEF Leave
  <2>2. PICK i, x : /\ hand' = [hand EXCEPT ![w] = i] /\ stage' = [stage EXCEPT ![w] = x]
                    /\ x \notin {"claimed", "deliberating", "working"}
    BY <2>1
  <2>3. HeldItems' = batch' \union Others(w) \union
                      (IF x \in {"claimed", "deliberating", "working"} THEN {i} ELSE {})
    BY <2>2, HeldSplit
  <2> QED
    BY <1>5, <2>2, <2>3
<1>9. Placed(queue', rows', HeldItems')
  <2>1. batch \in SUBSET Made /\ IsFiniteSet(batch)
    BY PositionsFinite, MadeItems DEF Created, Made
  <2>2. queue' \in Seq(Made)
    BY <1>3, <1>4, <2>1, WithoutType, LoadedType
  <2>3. /\ \A j : j \notin batch => (IsQueued(queue', j) <=> IsQueued(q, j))
        /\ t = "queued" => \A j \in batch : IsQueued(queue', j)
        /\ \A j : AtMostOnce(q, j) => AtMostOnce(queue', j)
    <3>1. CASE t = "completed"
      BY <1>3, <1>4, <3>1, WithoutEntries
    <3>2. CASE t = "queued"
      <4> DEFINE P == prio
                 r == queue'
                 B == batch
      <4>1. r \in Loaded(q, B, P) /\ B \in SUBSET Made /\ IsFiniteSet(B)
        BY <1>3, <2>1, <3>2
      <4>2. Made \in SUBSET Items
        OBVIOUS
      <4> HIDE DEF P, r, B
      <4>3. /\ \A j : IsQueued(r, j) <=> j \in B \/ IsQueued(q, j)
            /\ \A j : AtMostOnce(q, j) => AtMostOnce(r, j)
        BY <1>4, <4>1, <4>2, LoadedEntries
      <4> QED
        BY <4>3 DEF r, B
    <3> QED
      BY <3>1, <3>2
  <2>4. OnePlace(queue', Others(w))
    <3>1. OnePlace(q, G1)
      BY <1>7 DEF Placed
    <3> QED
      BY <1>6, <2>3, <3>1 DEF OnePlace
  <2>5. /\ \A j \in Items : j \notin batch => (j \in G1 => j \in Others(w))
        /\ \A j \in Items : j \in Others(w) => j \in G1
    OBVIOUS
  <2>6. t \in Status \ {"absent", "processing"} /\ t # "dropped"
    BY DEF Status
  <2> HIDE DEF R1, G1
  <2>7. Placed(queue', SettleAll(R1, batch, t), Others(w))
    BY <1>1, <1>7, <2>2, <2>3, <2>4, <2>5, <2>6, SettlePlaced
  <2> QED
    BY <1>5, <1>8, <2>7
<1>10. \A v \in Workers \ {w} : stage[v] = "claimed" /\ ~isStrictStateItem(msg[hand[v]]) =>
         rows'[hand[v]].status # "queued"
  <2>1. CASE batch = {}
    <3>1. \A j \in Items \ {h} : rows'[j] = R1[j]
      BY <1>5, <2>1 DEF SettleAll
    <3>2. \A j \in Items \ {h} : R1[j].status = rows[j].status
      BY <1>1, SettleRow
    <3> QED
      BY <1>1, <3>1, <3>2, OtherClaims
  <2>2. CASE batch # {}
    BY <1>6, <2>2, OneWorker
  <2> QED
    BY <2>1, <2>2
<1>11. CASE Serial
  <2>1. hand' = [hand EXCEPT ![w] = NoItem] /\ stage' = [stage EXCEPT ![w] = "idle"]
    BY <1>5, <1>11 DEF Leave
  <2> HIDE DEF R1
  <2> QED
    BY <1>5, <1>9, <1>10, <2>1, MoveFrame DEF Stages, PlaceInv, Shape
<1>12. CASE ~Serial
  <2>1. hand' = [hand EXCEPT ![w] = h] /\ stage' = [stage EXCEPT ![w] = "resolved"]
    BY <1>5, <1>12 DEF Leave, TypeOK
  <2> HIDE DEF R1
  <2> QED
    BY <1>5, <1>9, <1>10, <1>12, <2>1, MoveFrame DEF Stages
<1> QED
  BY <1>11, <1>12

\* complete, requeue, drop and deferDequeued.
LEMMA SettlePlaces ==
  ASSUME TypeOK, Created, PlaceInv, NEW w \in Workers,
         complete(w) \/ requeue(w) \/ drop(w) \/ deferDequeued(w)
  PROVE  PlaceInv'
<1> USE StartPlaces
<1> DEFINE h == hand[w]
           Fits(q, s) ==
             /\ q \in Seq(Made)
             /\ \A j : j # h => (IsQueued(q, j) <=> IsQueued(queue, j))
             /\ s = "queued" => IsQueued(q, h)
             /\ \A j : AtMostOnce(queue, j) /\ (j # h \/ ~IsQueued(queue, h)) => AtMostOnce(q, j)
<1>1. stage[w] = "working" /\ UNCHANGED <<msg, locks>> /\ h \in Made
  BY InHand DEF complete, requeue, drop, deferDequeued, Busy
<1>2. /\ "completed" \in Status \ {"absent", "processing"}
      /\ "queued" \in Status \ {"absent", "processing"}
      /\ "dropped" \in Status \ {"absent", "processing"}
      /\ "deferred" \in Status \ {"absent", "processing"}
  BY DEF Status
<1>3. ASSUME NEW s, s # "queued" PROVE \A q \in RemoveFirstOf(queue, h) : Fits(q, s)
  BY <1>3, RemoveFirstEntries, RemoveFirstType
<1>4. \A q \in insertSorted(queue, h, prio) : Fits(q, "queued")
  BY <1>1, InsertEntries, InsertType
<1>5. \A q \in {queue} : Fits(q, "deferred")
  OBVIOUS
<1>6. \E s \in Status \ {"absent", "processing"}, t \in {"queued", "completed"} : \E Q :
        (\A q \in Q : Fits(q, s)) /\ EndTurn(w, s, Q, t)
  <2> HIDE DEF Fits
  <2>1. CASE complete(w)
    BY <1>2, <1>3, <2>1 DEF complete
  <2>2. CASE requeue(w)
    BY <1>2, <1>4, <2>2 DEF requeue
  <2>3. CASE drop(w)
    BY <1>2, <1>3, <2>3 DEF drop
  <2>4. CASE deferDequeued(w)
    BY <1>2, <1>5, <2>4 DEF deferDequeued
  <2> QED
    BY <2>1, <2>2, <2>3, <2>4
<1>7. PICK s \in Status \ {"absent", "processing"}, t \in {"queued", "completed"} : \E Q :
        (\A q \in Q : Fits(q, s)) /\ EndTurn(w, s, Q, t)
  BY <1>6
<1>8. PICK Q : (\A q \in Q : Fits(q, s)) /\ EndTurn(w, s, Q, t)
  BY <1>7
<1> QED
  BY <1>1, <1>8, EndTurnPlaces

\* resurfaceDue: the serial loop is idle, so nothing is held.
LEMMA ResurfacePlaces ==
  ASSUME TypeOK, Created, PlaceInv, NEW w \in Workers, resurfaceDue(w)
  PROVE  PlaceInv'
<1> USE StartPlaces
<1>1. PICK S \in SUBSET {i \in Items : rows[i].status = "deferred" /\ ~IsQueued(queue, i)} :
        rows' = SetStatus(rows, S, "queued") /\ queue' \in Loaded(queue, S, prio')
  BY DEF resurfaceDue
<1>2. UNCHANGED <<msg, hand, stage, batch, locks>> /\ Serial /\ stage[w] = "idle"
  BY DEF resurfaceDue
<1>3. S \in SUBSET Made /\ IsFiniteSet(S)
  <2>1. S \in SUBSET Made
    BY <1>1, StoredMade
  <2> QED
    BY <2>1, PositionsFinite, MadeItems DEF Made
<1>4. HeldItems = {}
  <2>1. batch = {}
    BY <1>2 DEF PlaceInv, Shape
  <2> QED
    BY <1>2, <2>1, HeldSplit, SerialHeld DEF Busy
<1>5. queue' \in Seq(Made)
  BY <1>1, <1>3, LoadedType
<1>6. /\ \A i : IsQueued(queue', i) <=> i \in S \/ IsQueued(queue, i)
      /\ \A i : AtMostOnce(queue, i) => AtMostOnce(queue', i)
  BY <1>1, <1>3, LoadedEntries
<1>7. \A j \in S : rows[j].by # "self"
  BY <1>1 DEF RowsSafe, RowSafe, Requeueable
<1>8. OnePlace(queue', HeldItems)
  BY <1>4, <1>6 DEF OnePlace
<1>9. Items # {} \/ rows' = rows
  BY <1>1 DEF SetStatus
<1>10. "queued" \in Status \ {"absent", "processing"}
  BY DEF Status
<1>11. Placed(queue', rows', HeldItems)
  <2>1. CASE Items # {}
    BY <1>1, <1>3, <1>5, <1>6, <1>7, <1>8, <1>10, <2>1, SetStatusPlaced
  <2>2. CASE Items = {}
    BY <1>5, <1>8, <1>9, <2>2 DEF Placed, RowsSafe
  <2> QED
    BY <2>1, <2>2
<1>12. \A v \in Workers : stage[v] # "claimed"
  BY <1>2, OneWorker
<1> QED
  BY <1>2, <1>11, <1>12, StillFrame

-----------------------------------------------------------------------------
(***************************************************************************)
(* The serial loop before it works on an item: it has put back the one it  *)
(* took, so that nothing is held, and takes one again.                     *)
(***************************************************************************)
\* Before it works the serial loop holds the item in its hand only.
LEMMA SerialHand ==
  ASSUME TypeOK, Created, PlaceInv, Serial, NEW w \in Workers, stage[w] \in {"claimed", "deliberating"}
  PROVE  /\ batch = {} /\ Others(w) = {} /\ HeldItems = {hand[w]} /\ Busy(w)
         /\ hand[w] \in Made /\ hand[w] \in Items
         /\ \A q \in insertSorted(queue, hand[w], prio) :
              Placed(q, requeueItem(rows, hand[w]), {}) /\ q \in Seq(Made)
         /\ requeueItem(rows, hand[w])[hand[w]].status # "dropped"
<1>1. Busy(w) /\ Others(w) = {}
  BY SerialHeld DEF Busy
<1>2. batch = {}
  BY DEF PlaceInv, Shape
<1>3. HeldItems = {hand[w]}
  BY <1>1, <1>2, HeldSplit
<1>4. (HeldItems \ {hand[w]}) \union Others(w) = {}
  BY <1>1, <1>3
<1>5. ASSUME NEW q \in insertSorted(queue, hand[w], prio)
      PROVE  Placed(q, requeueItem(rows, hand[w]), {}) /\ q \in Seq(Made)
  <2>1. Placed(q, requeueItem(rows, hand[w]), (HeldItems \ {hand[w]}) \union Others(w))
    BY <1>1, PutBackPlaced
  <2> QED
    BY <1>4, <2>1 DEF Placed
<1>6. hand[w] \in Made /\ hand[w] \in Items
  BY <1>1, InHand
<1>7. requeueItem(rows, hand[w])[hand[w]].status # "dropped"
  <2>1. rows \in [Items -> Row]
    BY StartPlaces
  <2> QED
    BY <1>6, <2>1, RequeueRow DEF Requeueable
<1> QED
  BY <1>1, <1>2, <1>3, <1>5, <1>6, <1>7

\* The serial loop locks nothing, so what it throws out is everything.
LEMMA NothingLocked ==
  ASSUME TypeOK, PlaceInv, Serial, NEW i \in Made
  PROVE  ~isItemEntityLocked(i)
<1>1. resolveEntityKeys(msg[i]) \subseteq Keys
  BY KeysOfItem DEF lockKeysFor
<1> QED
  BY <1>1 DEF isItemEntityLocked, PlaceInv, Shape

\* TakeHead, by a worker that goes on to stage s.
LEMMA TakeHeadPlaces ==
  ASSUME TypeOK, Created, PlaceInv, Serial, NEW w \in Workers, stage[w] \in {"claimed", "deliberating"},
         NEW q, NEW R, Placed(q, R, {}), isStrictStateItem(msg[hand[w]]) => R[hand[w]].status # "dropped",
         TakeHead(w, q, R), NEW s \in {"deliberating", "working"}, stage' = [stage EXCEPT ![w] = s],
         s = "deliberating" => ~isStrictStateItem(msg[hand'[w]]), UNCHANGED <<msg, batch, locks>>
  PROVE  PlaceInv'
<1>1. \E i : /\ hand' = [hand EXCEPT ![w] = i] /\ Placed(queue', rows', {i})
  <2>1. CASE Claimed(q, R) = {}
    <3>1. queue' \in OnlyLocked(q) /\ rows' = R /\ hand' = [hand EXCEPT ![w] = hand[w]]
      BY <2>1 DEF TakeHead, TypeOK
    <3>2. Placed(queue', R, {})
      BY <2>1, <3>1, ThrowPlaced
    <3>3. ~IsQueued(queue', hand[w])
      <4>1. \A i : IsQueued(queue', i) => isItemEntityLocked(i)
        BY <2>1, <3>1, ThrowEntries DEF Placed
      <4> QED
        BY <4>1, SerialHand, NothingLocked
    <3>4. Placed(queue', R, {} \union {hand[w]})
      BY <3>2, <3>3, HoldPlaced
    <3> QED
      BY <3>1, <3>4
  <2>2. CASE Claimed(q, R) # {}
    <3>1. PICK n \in Claimed(q, R) :
            /\ queue' \in AfterClaim(q, n)
            /\ rows' = claimItem(R, q[n])
            /\ hand' = [hand EXCEPT ![w] = q[n]]
      BY <2>2 DEF TakeHead
    <3>2. Placed(queue', rows', {} \union {q[n]})
      BY <3>1, ClaimPlaced
    <3> QED
      BY <3>1, <3>2
  <2> QED
    BY <2>1, <2>2
<1>2. PICK i : /\ hand' = [hand EXCEPT ![w] = i] /\ Placed(queue', rows', {i})
  BY <1>1
<1>3. hand'[w] = i /\ s \in Stages
  BY <1>2 DEF TypeOK, Stages
<1>4. HeldItems' = {i} /\ batch = {} /\ Others(w) = {}
  <2>1. HeldItems' = batch' \union Others(w) \union
                       (IF s \in {"claimed", "deliberating", "working"} THEN {i} ELSE {})
    BY <1>2, HeldSplit
  <2> QED
    BY <2>1, SerialHand
<1>5. \A v \in Workers \ {w} : FALSE
  BY OneWorker
<1> QED
  BY <1>2, <1>3, <1>4, <1>5, MoveFrame DEF PlaceInv, Shape

\* abortDeliberation.
LEMMA AbortPlaces ==
  ASSUME TypeOK, Created, PlaceInv, NEW w \in Workers, abortDeliberation(w)
  PROVE  PlaceInv'
<1> DEFINE R1 == requeueItem(rows, hand[w])
<1>1. Serial /\ stage[w] = "deliberating"
  BY DEF abortDeliberation
<1>2. PICK q \in insertSorted(queue, hand[w], prio) : TakeHead(w, q, R1)
  BY DEF abortDeliberation
<1>3. Placed(q, R1, {}) /\ R1[hand[w]].status # "dropped"
  BY <1>1, SerialHand
<1>4. stage' = [stage EXCEPT ![w] = "working"] /\ UNCHANGED <<msg, batch, locks>>
  BY DEF abortDeliberation
<1> HIDE DEF R1
<1> QED
  BY <1>1, <1>2, <1>3, <1>4, TakeHeadPlaces

\* preTriage.
LEMMA PreTriagePlaces ==
  ASSUME TypeOK, Created, PlaceInv, NEW w \in Workers, preTriage(w)
  PROVE  PlaceInv'
<1> DEFINE h == hand[w]
           R1 == requeueItem(rows, h)
           Purged(q) == purgeStaleItems(q, R1)
           R2(q) == SetStatus(R1, Purged(q), "dropped")
           R3(q, r) == SetStatus(R2(q), At(r, consolidateByEntity(r)), "merged")
<1>1. Serial /\ stage[w] = "claimed" /\ UNCHANGED <<msg, prio, batch, locks, served>>
  BY DEF preTriage
<1>2. PICK q1 \in insertSorted(queue, h, prio) :
        \E q2 \in Without(q1, Purged(q1)) :
        \E q3 \in Kept(q2, (1..Len(q2)) \ consolidateByEntity(q2)) :
          TakeHead(w, q3, R3(q1, q2))
  BY DEF preTriage
<1>3. PICK q2 \in Without(q1, Purged(q1)) :
        \E q3 \in Kept(q2, (1..Len(q2)) \ consolidateByEntity(q2)) :
          TakeHead(w, q3, R3(q1, q2))
  BY <1>2
<1>4. PICK q3 \in Kept(q2, (1..Len(q2)) \ consolidateByEntity(q2)) :
        TakeHead(w, q3, R3(q1, q2))
  BY <1>3
<1>5. /\ "dropped" \in Status \ {"absent", "processing"}
      /\ "merged" \in Status \ {"absent", "processing"}
  BY DEF Status
<1>6. /\ h \in Items /\ Items # {}
      /\ Placed(q1, R1, {}) /\ q1 \in Seq(Made) /\ R1[h].status # "dropped"
  BY <1>1, SerialHand
<1>7. /\ \A j \in Purged(q1) : IsQueued(q1, j) /\ ~isStrictStateItem(msg[j])
      /\ Purged(q1) \subseteq Items
  BY DEF purgeStaleItems, isNeverPurgeable
<1> HIDE DEF R1, Purged
<1>8. Placed(q2, R2(q1), {})
  <2>1. q2 \in Seq(Made)
    BY <1>6, WithoutType
  <2>2. /\ \A j : IsQueued(q2, j) <=> IsQueued(q1, j) /\ j \notin Purged(q1)
        /\ \A j : AtMostOnce(q1, j) => AtMostOnce(q2, j)
    BY <1>6, WithoutEntries
  <2>3. OnePlace(q2, {})
    BY <1>6, <2>2 DEF Placed, OnePlace
  <2>4. \A j \in Purged(q1) : R1[j].by # "self"
    BY <1>6, <1>7, QueuedClaims
  <2> QED
    BY <1>5, <1>6, <2>1, <2>2, <2>3, <2>4, SetStatusPlaced
<1>9. Placed(q3, R3(q1, q2), {})
  <2> DEFINE M == consolidateByEntity(q2)
             A == At(q2, M)
             K == (1..Len(q2)) \ M
  <2>1. M \subseteq 1..Len(q2) /\ q2 \in Seq(Made)
    BY <1>8 DEF consolidateByEntity, MergedAway, Placed
  <2>2. K \in SUBSET (1..Len(q2)) /\ q3 \in Kept(q2, K)
    OBVIOUS
  <2>3. \A j : j \notin A => ((\E k \in K : q2[k] = j) <=> IsQueued(q2, j))
    BY DEF At, IsQueued
  <2>4. \A j \in A : IsQueued(q2, j) /\ j \in Items
    BY <1>8, <2>1, PlacedEntries DEF At, IsQueued
  <2> HIDE DEF K, A
  <2>5. q3 \in Seq(Made)
    BY <2>1, <2>2, KeptType
  <2>6. /\ \A j : IsQueued(q3, j) <=> \E k \in K : q2[k] = j
        /\ \A j : AtMostOnce(q2, j) => AtMostOnce(q3, j)
    BY <2>1, <2>2, KeptEntries
  <2>7. OnePlace(q3, {})
    BY <1>8, <2>6 DEF Placed, OnePlace
  <2> HIDE DEF R2
  <2>8. \A j \in A : R2(q1)[j].by # "self"
    BY <1>8, <2>4, QueuedClaims
  <2>9. Placed(q3, SetStatus(R2(q1), A, "merged"), {})
    BY <1>5, <1>6, <1>8, <2>3, <2>5, <2>6, <2>7, <2>8, SetStatusPlaced
  <2> QED
    BY <2>9 DEF A
<1>10. isStrictStateItem(msg[h]) => R3(q1, q2)[h].status # "dropped"
  <2>1. R1 \in [Items -> Row] /\ R2(q1) \in [Items -> Row]
    BY <1>6, <1>8 DEF Placed
  <2>2. isStrictStateItem(msg[h]) => h \notin Purged(q1)
    BY <1>7
  <2>3. isStrictStateItem(msg[h]) => R2(q1)[h].status # "dropped"
    BY <1>5, <1>6, <2>1, <2>2, SetStatusRow
  <2> HIDE DEF R2
  <2> QED
    BY <1>5, <1>6, <2>1, <2>3, SetStatusRow
<1>11. \E s \in {"deliberating", "working"} :
         /\ stage' = [stage EXCEPT ![w] = s]
         /\ s = "deliberating" => ~isStrictStateItem(msg[hand'[w]])
  BY DEF preTriage, needsLLMTriage
<1> HIDE DEF R3
<1> QED
  BY <1>1, <1>4, <1>9, <1>10, <1>11, TakeHeadPlaces

\* focus.
LEMMA FocusPlaces ==
  ASSUME TypeOK, Created, PlaceInv, NEW w \in Workers, focus(w)
  PROVE  PlaceInv'
<1>1. /\ Serial /\ stage[w] \in {"claimed", "deliberating"}
      /\ hand' = [hand EXCEPT ![w] = hand[w]] /\ stage' = [stage EXCEPT ![w] = "working"]
      /\ UNCHANGED <<msg, rows, queue, batch, locks>>
  BY DEF focus, TypeOK
<1>2. batch = {} /\ Others(w) = {} /\ HeldItems = {hand[w]}
  BY <1>1, SerialHand
<1>3. HeldItems' = batch' \union Others(w) \union
                     (IF "working" \in {"claimed", "deliberating", "working"} THEN {hand[w]} ELSE {})
  BY <1>1, HeldSplit
<1>4. HeldItems' = HeldItems /\ batch' = {}
  BY <1>1, <1>2, <1>3
<1>5. \A v \in Workers \ {w} : FALSE
  BY <1>1, OneWorker
<1> QED
  BY <1>1, <1>2, <1>4, <1>5, MoveFrame DEF Stages, PlaceInv, Shape

\* merge: the item is settled where it waits.
LEMMA MergePlaces ==
  ASSUME TypeOK, Created, PlaceInv, NEW w \in Workers, NEW i \in Items, merge(w, i)
  PROVE  PlaceInv'
<1> USE StartPlaces
<1>1. /\ Serial /\ stage[w] = "working" /\ queue' \in RemoveFirstOf(queue, i)
      /\ rows' = settle(rows, i, "merged") /\ UNCHANGED <<msg, hand, stage, batch, locks>>
  BY DEF merge
<1>2. "merged" \in Status \ {"absent", "processing"}
  BY DEF Status
<1>3. rows' = SettleAll(rows, {i}, "merged")
  BY <1>1, <1>2, OneRow
<1>4. /\ queue' \in Seq(Made)
      /\ \A j : j # i => (IsQueued(queue', j) <=> IsQueued(queue, j))
      /\ \A j : IsQueued(queue', j) => IsQueued(queue, j)
      /\ \A j : AtMostOnce(queue, j) => AtMostOnce(queue', j)
  BY <1>1, RemoveFirstEntries, RemoveFirstType
<1>5. OnePlace(queue', HeldItems)
  BY <1>4 DEF OnePlace
<1>6. Placed(queue', rows', HeldItems)
  BY <1>2, <1>3, <1>4, <1>5, SettlePlaced
<1>7. \A v \in Workers : stage[v] # "claimed"
  BY <1>1, OneWorker
<1> QED
  BY <1>1, <1>6, <1>7, StillFrame

\* The item chosen instead of h, which is not strict, is the one held.
LEMMA ChosenPlaced ==
  ASSUME TypeOK, NEW q, NEW R, NEW h \in Made, NEW i \in Made, Placed(q, R, {h}),
         ~isStrictStateItem(msg[h]), NEW t \in Chosen(q, R, h, i)
  PROVE  Placed(t.queue, t.rows, {t.item}) /\ t.item \in {h, i}
<1> DEFINE R1 == requeueItem(R, h)
<1>1. Sure(h) /\ ~IsQueued(q, h)
  BY NotStrictSure DEF Placed, OnePlace
<1>2. CASE i = h
  <2>1. t = [queue |-> q, rows |-> R, item |-> h]
    BY <1>2 DEF Chosen
  <2> QED
    BY <2>1
<1>3. CASE i # h
  <2>1. PICK q1 \in insertSorted(q, h, prio) :
          t \in IF Takes(q1, R1, i)
                THEN {[queue |-> r, rows |-> claimItem(R1, i), item |-> i] :
                        r \in RemoveFirstOf(q1, i)}
                ELSE UNION {{[queue |-> r, item |-> h,
                              rows |-> IF Takes(q2, R1, h) THEN claimItem(R1, h) ELSE R1] :
                               r \in RemoveFirstOf(q2, h)} :
                            q2 \in RemoveFirstOf(q1, i)}
    BY <1>3 DEF Chosen
  <2>2. Placed(q1, R1, {})
    BY <1>1, RequeuePlaced
  <2> HIDE DEF R1
  <2>3. CASE Takes(q1, R1, i)
    <3>1. PICK r \in RemoveFirstOf(q1, i) : t = [queue |-> r, rows |-> claimItem(R1, i), item |-> i]
      BY <2>1, <2>3
    <3>2. Placed(r, claimItem(R1, i), {} \union {i})
      BY <2>2, <2>3, TakePlaced
    <3> QED
      BY <3>1, <3>2
  <2>4. CASE ~Takes(q1, R1, i)
    <3>1. PICK q2 \in RemoveFirstOf(q1, i) : \E r \in RemoveFirstOf(q2, h) :
            t = [queue |-> r, item |-> h,
                 rows |-> IF Takes(q2, R1, h) THEN claimItem(R1, h) ELSE R1]
      BY <2>1, <2>4
    <3>2. PICK r \in RemoveFirstOf(q2, h) :
            t = [queue |-> r, item |-> h,
                 rows |-> IF Takes(q2, R1, h) THEN claimItem(R1, h) ELSE R1]
      BY <3>1
    <3>3. Placed(q2, R1, {})
      BY <2>2, <2>4, TakePlaced
    <3>4. /\ Takes(q2, R1, h) => Placed(r, claimItem(R1, h), {} \union {h})
          /\ ~Takes(q2, R1, h) => Placed(r, R1, {})
          /\ ~IsQueued(r, h)
      BY <1>1, <3>3, TakePlaced
    <3>5. ~Takes(q2, R1, h) => Placed(r, R1, {} \union {h})
      BY <3>4, HoldPlaced
    <3> QED
      BY <3>2, <3>4, <3>5
  <2> QED
    BY <2>3, <2>4
<1> QED
  BY <1>2, <1>3

\* The items of A that can be taken, and the rows after their claims.
Taken(q, R, A) == {j \in A : Takes(q, R, j)}
ClaimAll(R, B) == [j \in Items |-> IF j \in B THEN claimItem(R, j)[j] ELSE R[j]]

\* What deliberation says of the rest: B is claimed along with the item in
\* hand, other entries of the batch A are thrown out, D deferred, E dropped.
LEMMA VerdictPlaced ==
  ASSUME TypeOK, NEW q, NEW R, NEW h \in Made, Placed(q, R, {h}),
         NEW A \in SUBSET Made, NEW D \in SUBSET Made, NEW E \in SUBSET Made,
         A \cap D = {}, A \cap E = {}, D \cap E = {},
         \A j \in A \union D \union E : ~isStrictStateItem(msg[j]),
         \A j \in D : IsQueued(q, j),
         NEW r \in Without(q, A \union D \union E)
  PROVE  /\ Placed(r, SettleAll(SetStatus(ClaimAll(R, Taken(q, R, A)), D, "deferred"), E, "dropped"),
                   {h} \union Taken(q, R, A))
         /\ h \notin Taken(q, R, A)
<1> DEFINE B == Taken(q, R, A)
           S == ClaimAll(R, B)
           T == SettleAll(SetStatus(S, D, "deferred"), E, "dropped")
<1>1. /\ Made \in SUBSET Items /\ q \in Seq(Made) /\ R \in [Items -> Row]
      /\ RowsSafe(q, R, {h}) /\ OnePlace(q, {h})
  BY PlacedEntries DEF Placed
<1>2. /\ "deferred" \in Status \ {"absent"} /\ "dropped" \in Status \ {"absent"}
  BY DEF Status
<1>3. S \in [Items -> Row]
  <2>1. \A j \in Items : claimItem(R, j)[j] \in Row
    BY <1>1, ClaimRowTypes
  <2> QED
    BY <1>1, <2>1 DEF ClaimAll
<1>0. /\ \A j : j \in B <=> j \in A /\ Takes(q, R, j)
      /\ \A j \in Items : S[j] = IF j \in B THEN claimItem(R, j)[j] ELSE R[j]
  BY DEF Taken, ClaimAll
<1> HIDE DEF B, S
<1>4. SetStatus(S, D, "deferred") \in [Items -> Row] /\ T \in [Items -> Row]
  <2>1. PICK i \in Items : TRUE
    BY <1>1
  <2>2. SetStatus(S, D, "deferred") \in [Items -> Row]
    BY <1>2, <1>3, <2>1, RowTypes
  <2> QED
    BY <1>2, <2>1, <2>2, RowTypes
<1>5. r \in Seq(Made)
  BY <1>1, WithoutType
<1>6. /\ \A j : IsQueued(r, j) <=> IsQueued(q, j) /\ j \notin A \union D \union E
      /\ \A j : AtMostOnce(q, j) => AtMostOnce(r, j)
  BY <1>1, WithoutEntries
<1>7. \A j \in A \union D \union E : IsQueued(q, j) => j # h
  BY <1>1, NotStrictSure DEF OnePlace
<1>8. h \notin B
  BY <1>0, <1>7 DEF Takes
<1>9. OnePlace(r, {h} \union B)
  BY <1>0, <1>1, <1>6 DEF OnePlace
<1>10. ASSUME NEW j \in Items
       PROVE  RowSafe(j, T[j], IsQueued(r, j), j \in {h} \union B)
  <2>1. RowSafe(j, R[j], IsQueued(q, j), j \in {h})
    BY <1>1 DEF RowsSafe
  <2>2. IF j \in B
        THEN IF R[j].status # "absent"
             THEN S[j].status = "processing" /\ S[j].by = "self"
             ELSE S[j] = R[j]
        ELSE S[j] = R[j]
    BY <1>0, <1>1, ClaimRow
  <2> DEFINE V == SetStatus(S, D, "deferred")
  <2>3. /\ V[j].by = S[j].by
        /\ V[j].status = IF j \in D /\ S[j].status # "absent" THEN "deferred" ELSE S[j].status
    BY <1>2, <1>3, SetStatusRow
  <2>4. /\ T[j].by = IF j \in E /\ V[j].by = "self" THEN "none" ELSE V[j].by
        /\ T[j].status = IF j \in E /\ V[j].status # "absent" THEN "dropped" ELSE V[j].status
    <3>1. V \in [Items -> Row]
      BY <1>4
    <3> HIDE DEF V
    <3>2. /\ SettleAll(V, E, "dropped")[j].by = IF j \in E /\ V[j].by = "self" THEN "none" ELSE V[j].by
          /\ SettleAll(V, E, "dropped")[j].status =
               IF j \in E /\ V[j].status # "absent" THEN "dropped" ELSE V[j].status
      BY <1>2, <3>1, SettleAllRow
    <3> QED
      BY <3>2 DEF V
  <2>5. R[j].by \in {"none", "self", "dead"}
    BY <1>1 DEF Row
  <2> HIDE DEF V, T
  <2>6. CASE j \in E
    <3>1. j \notin B /\ j \notin D /\ ~isStrictStateItem(msg[j])
      BY <1>0, <2>6
    <3> QED
      BY <2>1, <2>2, <2>3, <2>4, <2>6, <3>1 DEF RowSafe, Requeueable
  <2>7. CASE j \in D
    <3>1. j \notin B /\ j \notin E /\ ~isStrictStateItem(msg[j]) /\ R[j].by # "self"
      BY <1>0, <1>7, <2>1, <2>7 DEF RowSafe
    <3> QED
      BY <2>1, <2>2, <2>3, <2>4, <2>7, <3>1 DEF RowSafe, Requeueable
  <2>8. CASE j \in B
    <3>1. j \notin D /\ j \notin E /\ ~isStrictStateItem(msg[j])
      BY <1>0, <2>8
    <3> QED
      BY <2>1, <2>2, <2>3, <2>4, <2>8, <3>1 DEF RowSafe, Requeueable
  <2>9. CASE j \in A \ B
    <3>1. j \notin D /\ j \notin E /\ (~IsQueued(q, j) \/ ~claimable(R, j))
      BY <1>0, <2>9 DEF Takes
    <3> QED
      BY <1>6, <2>1, <2>2, <2>3, <2>4, <2>5, <2>9, <3>1 DEF RowSafe, claimable
  <2>10. CASE j \notin A \union D \union E
    <3>1. T[j].by = R[j].by /\ T[j].status = R[j].status /\ j \notin B
      BY <1>0, <2>2, <2>3, <2>4, <2>10
    <3>2. IsQueued(r, j) <=> IsQueued(q, j)
      BY <1>6, <2>10
    <3> QED
      BY <2>1, <3>1, <3>2 DEF RowSafe
  <2> QED
    BY <2>6, <2>7, <2>8, <2>9, <2>10
<1> HIDE DEF T
<1>11. Placed(r, T, {h} \union B)
  BY <1>4, <1>5, <1>9, <1>10 DEF Placed, RowsSafe
<1> QED
  BY <1>8, <1>11 DEF T, B, S

\* applyDeliberationResult.
LEMMA DeliberationPlaces ==
  ASSUME TypeOK, Created, PlaceInv, NEW w \in Workers, applyDeliberationResult(w)
  PROVE  PlaceInv'
<1> USE StartPlaces
<1>1. /\ Serial /\ stage[w] = "deliberating" /\ stage' = [stage EXCEPT ![w] = "working"]
      /\ UNCHANGED <<msg, prio, locks, served>>
  BY DEF applyDeliberationResult
<1>2. PICK i \in Made : \E verdict \in [Listed(w) \ {i} -> Verdicts] : Decide(w, i, verdict)
  BY DEF applyDeliberationResult, Made
<1>3. PICK verdict \in [Listed(w) \ {i} -> Verdicts] : Decide(w, i, verdict)
  BY <1>2
<1> DEFINE h == hand[w]
           Said(v) == {j \in DOMAIN verdict :
                         verdict[j] = v /\ (j = h \/ ~isProtected(msg[j]))}
           C == Said("complete") \ {h}
           B(t) == {j \in Said("batch") : Takes(t.queue, t.rows, j)}
           D(t) == {j \in Said("defer") : IsQueued(t.queue, j)}
           R(t) == [j \in Items |-> IF j \in B(t) THEN claimItem(t.rows, j)[j] ELSE t.rows[j]]
<1>4. PICK q \in Without(queue, C) : \E t \in Chosen(q, SettleAll(rows, C, "completed"), h, i) :
        /\ queue' \in Without(t.queue, Said("batch") \union D(t) \union Said("drop"))
        /\ rows' = SettleAll(SetStatus(R(t), D(t), "deferred"), Said("drop"), "dropped")
        /\ hand' = [hand EXCEPT ![w] = t.item]
        /\ batch' = B(t)
  BY <1>3 DEF Decide
<1>5. PICK t \in Chosen(q, SettleAll(rows, C, "completed"), h, i) :
        /\ queue' \in Without(t.queue, Said("batch") \union D(t) \union Said("drop"))
        /\ rows' = SettleAll(SetStatus(R(t), D(t), "deferred"), Said("drop"), "dropped")
        /\ hand' = [hand EXCEPT ![w] = t.item]
        /\ batch' = B(t)
  BY <1>4
<1>6. /\ HeldItems = {h} /\ h \in Made /\ h \in Items /\ Others(w) = {}
      /\ ~isStrictStateItem(msg[h])
  BY <1>1, SerialHand DEF PlaceInv, Shape
<1>7. /\ \A v : Said(v) \subseteq Made /\ \A j \in Said(v) : ~isStrictStateItem(msg[j])
      /\ Said("batch") \cap Said("drop") = {} /\ Said("batch") \cap Said("defer") = {}
      /\ Said("defer") \cap Said("drop") = {}
  <2>1. Listed(w) \subseteq Made
    BY <1>6 DEF Listed
  <2>2. DOMAIN verdict \subseteq Made
    BY <2>1
  <2>3. \A j : ~isProtected(msg[j]) => ~isStrictStateItem(msg[j])
    BY DEF isProtected
  <2> QED
    BY <1>6, <2>2, <2>3
<1> HIDE DEF Said
<1>8. Placed(q, SettleAll(rows, C, "completed"), {h})
  <2>1. q \in Seq(Made)
    BY <1>4, WithoutType
  <2>2. /\ \A j : IsQueued(q, j) <=> IsQueued(queue, j) /\ j \notin C
        /\ \A j : AtMostOnce(queue, j) => AtMostOnce(q, j)
    BY <1>4, WithoutEntries
  <2>3. OnePlace(q, {h}) /\ Placed(queue, rows, {h})
    BY <1>6, <2>2 DEF OnePlace
  <2>4. "completed" \in Status \ {"absent", "processing"}
    BY DEF Status
  <2> HIDE DEF C
  <2> QED
    BY <1>6, <2>1, <2>2, <2>3, <2>4, SettlePlaced
<1>9. Placed(t.queue, t.rows, {t.item}) /\ t.item \in Made
  <2> DEFINE X == SettleAll(rows, C, "completed")
  <2>1. Placed(q, X, {h}) /\ t \in Chosen(q, X, h, i)
    BY <1>8
  <2> HIDE DEF X, h
  <2>2. Placed(t.queue, t.rows, {t.item}) /\ t.item \in {h, i}
    BY <1>6, <2>1, ChosenPlaced
  <2> QED
    BY <1>6, <2>2
<1>10. Placed(queue', rows', {t.item} \union B(t)) /\ t.item \notin B(t)
  <2> DEFINE A == Said("batch")
             F == Said("drop")
             d == D(t)
  <2>1. /\ A \in SUBSET Made /\ d \in SUBSET Made /\ F \in SUBSET Made
        /\ A \cap d = {} /\ A \cap F = {} /\ d \cap F = {}
        /\ \A j \in A \union d \union F : ~isStrictStateItem(msg[j])
        /\ \A j \in d : IsQueued(t.queue, j)
    BY <1>7
  <2>2. B(t) = Taken(t.queue, t.rows, A) /\ R(t) = ClaimAll(t.rows, B(t))
    BY DEF Taken, ClaimAll
  <2>3. queue' \in Without(t.queue, A \union d \union F)
    BY <1>5
  <2>4. rows' = SettleAll(SetStatus(ClaimAll(t.rows, Taken(t.queue, t.rows, A)), d, "deferred"),
                          F, "dropped")
    BY <1>5, <2>2
  <2> HIDE DEF A, F, d, B
  <2>5. /\ Placed(queue', rows', {t.item} \union Taken(t.queue, t.rows, A))
        /\ t.item \notin Taken(t.queue, t.rows, A)
    BY <1>9, <2>1, <2>3, <2>4, VerdictPlaced
  <2> QED
    BY <2>2, <2>5
<1>11. HeldItems' = {t.item} \union B(t)
  <2>1. HeldItems' = batch' \union Others(w) \union
                       (IF "working" \in {"claimed", "deliberating", "working"} THEN {t.item} ELSE {})
    BY <1>1, <1>5, HeldSplit
  <2> QED
    BY <1>5, <1>6, <2>1
<1>12. \A v \in Workers \ {w} : FALSE
  BY <1>1, OneWorker
<1> HIDE DEF B
<1> QED
  BY <1>1, <1>5, <1>6, <1>10, <1>11, <1>12, MoveFrame DEF Stages, PlaceInv, Shape

\* An item whose row may not be queued again is abandoned, or its round is
\* delivered again: nobody holds it any more.
LEMMA ReleasePlaced ==
  ASSUME NEW q, NEW R, NEW h \in Items, Placed(q, R, {h}), R[h].status # "queued",
         R[h].status = "processing" => msg[h].type \in {"human_chat", "a2a_message"},
         R[h].by = "self" => ~IsQueued(q, h)
  PROVE  Placed(q, R, {})
<1>1. OnePlace(q, {})
  BY DEF Placed, OnePlace
<1>2. ASSUME NEW j \in Items PROVE RowSafe(j, R[j], IsQueued(q, j), j \in {})
  BY DEF Placed, RowsSafe, RowSafe
<1> QED
  BY <1>1, <1>2 DEF Placed, RowsSafe

\* shutdown.
LEMMA ShutdownPlaces ==
  ASSUME TypeOK, Created, PlaceInv, NEW w \in Workers, shutdown(w)
  PROVE  PlaceInv'
<1> USE StartPlaces
<1> DEFINE h == hand[w]
<1>1. /\ Serial /\ stage[w] = "claimed"
      /\ hand' = [hand EXCEPT ![w] = NoItem] /\ stage' = [stage EXCEPT ![w] = "idle"]
      /\ UNCHANGED <<msg, batch, locks, served>>
  BY DEF shutdown
<1>2. /\ HeldItems = {h} /\ h \in Made /\ h \in Items /\ Others(w) = {} /\ batch = {}
      /\ Placed(queue, rows, {h})
  BY <1>1, SerialHand
<1>3. Sure(h) => ~IsQueued(queue, h)
  BY <1>2 DEF OnePlace
<1>4. Placed(queue', rows', {})
  <2>1. CASE msg[h].type \in {"human_chat", "a2a_message"} /\ UNCHANGED <<prio, rows, queue>>
    <3>1. msg[h] \in Messages
      BY <1>2, ElementOfSeq DEF TypeOK, Made
    <3>2. ~isStrictStateItem(msg[h])
      BY <2>1, <3>1, MailboxAssumption DEF isStrictStateItem
    <3>3. rows[h].status # "queued" /\ ~IsQueued(queue, h)
      BY <1>1, <1>3, <3>2, NotStrictSure DEF PlaceInv, ClaimKept
    <3> QED
      BY <1>2, <2>1, <3>3, ReleasePlaced
  <2>2. CASE reEnqueueOnShutdown(h)
    <3>1. CASE rows[h].status \in Requeueable
      <4>1. reinjectExistingRow(h, prio[h])
        BY <2>2, <3>1 DEF reEnqueueOnShutdown, Requeueable
      <4>2. CASE IsQueued(queue, h)
        BY <1>2, <1>3, <4>1, <4>2, RequeuePlaced DEF reinjectExistingRow
      <4>3. CASE ~IsQueued(queue, h)
        <5>1. queue' \in insertSorted(queue, h, prio') /\ rows' = requeueItem(rows, h)
          BY <4>1, <4>3 DEF reinjectExistingRow
        <5> QED
          BY <1>2, <4>3, <5>1, RequeuePlaced
      <4> QED
        BY <4>2, <4>3
    <3>2. CASE rows[h].status \notin Requeueable
      <4>1. rows[h].by # "self"
        BY <1>2, <3>2 DEF RowsSafe, RowSafe
      <4>2. rows[h].status # "queued" /\ rows[h].status # "processing"
        BY <3>2 DEF Requeueable
      <4>3. Placed(queue, rows, {})
        BY <1>2, <4>1, <4>2, ReleasePlaced
      <4>4. CASE UNCHANGED <<prio, rows, queue>>
        BY <4>3, <4>4
      <4>5. CASE \E e \in SameRound(msg[h]) :
                   /\ resolveReinjectDecision(rows[e].status) = "reuse"
                   /\ reinjectExistingRow(e, prio[h])
        <5>1. PICK e \in SameRound(msg[h]) :
                     /\ resolveReinjectDecision(rows[e].status) = "reuse"
                     /\ reinjectExistingRow(e, prio[h])
          BY <4>5
        <5>2. e \in Items /\ mailboxDedupKey(msg[e]) # <<>> /\ rows[e].status = "dropped"
          BY <5>1 DEF SameRound, resolveReinjectDecision
        <5> QED
          BY <4>3, <5>1, <5>2, ReinjectPlaced
      <4>6. CASE /\ rows[h].status = "absent"
                 /\ rows' = save(rows, h, prio[h]) /\ queue' \in insertSorted(queue, h, prio)
        <5>1. queue' \in Seq(Made)
          BY <1>2, <4>6, InsertType
        <5>2. /\ \A j : IsQueued(queue', j) <=> j = h \/ IsQueued(queue, j)
              /\ \A j : AtMostOnce(queue, j) /\ (j # h \/ ~IsQueued(queue, h)) => AtMostOnce(queue', j)
          <6> DEFINE P == prio
                     r == queue'
          <6>1. /\ r \in insertSorted(queue, h, P) /\ h \in Made
                /\ Made \in SUBSET Nat /\ queue \in Seq(Made)
            BY <1>2, <4>6
          <6> HIDE DEF P, r, h
          <6>2. /\ \A j : IsQueued(r, j) <=> j = h \/ IsQueued(queue, j)
                /\ \A j : AtMostOnce(queue, j) /\ (j # h \/ ~IsQueued(queue, h)) => AtMostOnce(r, j)
            BY <6>1, InsertEntries
          <6> QED
            BY <6>2 DEF r
        <5>3. OnePlace(queue', {})
          BY <1>3, <5>2 DEF OnePlace
        <5>4. rows' \in [Items -> Row] /\ rows'[h].status = "queued" /\ rows'[h].by = "none"
              /\ \A j \in Items \ {h} : rows'[j] = rows[j]
          <6>1. prio[h] \in Nat
            BY <1>2 DEF TypeOK
          <6> QED
            BY <1>2, <4>6, <6>1 DEF save, Waiting, Row, Status
        <5>5. ASSUME NEW j \in Items PROVE RowSafe(j, rows'[j], IsQueued(queue', j), j \in {})
          BY <4>3, <5>2, <5>4 DEF Placed, RowsSafe, RowSafe
        <5> QED
          BY <5>1, <5>3, <5>4, <5>5 DEF Placed, RowsSafe
      <4> QED
        BY <2>2, <3>2, <4>4, <4>5, <4>6 DEF reEnqueueOnShutdown, Requeueable
    <3> QED
      BY <3>1, <3>2
  <2> QED
    BY <2>1, <2>2 DEF shutdown
<1>5. HeldItems' = {}
  <2>1. HeldItems' = batch' \union Others(w) \union
                       (IF "idle" \in {"claimed", "deliberating", "working"} THEN {NoItem} ELSE {})
    BY <1>1, HeldSplit
  <2> QED
    BY <1>1, <1>2, <2>1
<1>6. \A v \in Workers \ {w} : FALSE
  BY <1>1, OneWorker
<1> QED
  BY <1>1, <1>2, <1>4, <1>5, <1>6, MoveFrame DEF Stages, PlaceInv, Shape

-----------------------------------------------------------------------------
(***************************************************************************)
(* The tools, drops by identifier, time, and the recovery.                 *)
(***************************************************************************)
\* A queued item that is not strict is held by nobody.
LEMMA WaitingApart ==
  ASSUME TypeOK, PlaceInv, NEW i, IsQueued(queue, i), ~isStrictStateItem(msg[i])
  PROVE  i \in Items /\ i \in Made /\ i \notin HeldItems /\ rows[i].by # "self"
<1>1. i \in Items /\ i \in Made /\ i \notin HeldItems
  BY StartPlaces, NotStrictSure DEF OnePlace
<1> QED
  BY <1>1, StartPlaces, QueuedClaims

\* Rows of claimed items that are not strict do not become queued when only
\* those of queued or strict items do.
LEMMA ClaimsStay ==
  ASSUME TypeOK, Created, PlaceInv,
         \A j \in Items : rows'[j].status = "queued" =>
           rows[j].status = "queued" \/ IsQueued(queue, j) \/ isStrictStateItem(msg[j])
  PROVE  \A w \in Workers : stage[w] = "claimed" /\ ~isStrictStateItem(msg[hand[w]]) =>
           rows'[hand[w]].status # "queued"
BY ClaimedApart DEF PlaceInv, ClaimKept, Busy

\* deferItem and dropItem.
LEMMA ToolPlaces ==
  ASSUME TypeOK, Created, PlaceInv, NEW i \in Items, deferItem(i) \/ dropItem(i)
  PROVE  PlaceInv'
<1> USE StartPlaces
<1>1. /\ IsQueued(queue, i) /\ ~isStrictStateItem(msg[i]) /\ queue' \in RemoveFirstOf(queue, i)
      /\ rows' = updateStatus(rows, i, "deferred") \/ rows' = settle(rows, i, "dropped")
      /\ UNCHANGED <<msg, hand, stage, batch, locks>>
  BY DEF deferItem, dropItem, Memory
<1>2. i \notin HeldItems /\ rows[i].by # "self"
  BY <1>1, WaitingApart
<1>3. /\ "deferred" \in Status \ {"absent", "processing"}
      /\ "dropped" \in Status \ {"absent", "processing"}
  BY DEF Status
<1>4. \/ rows' = SetStatus(rows, {i}, "deferred")
      \/ rows' = SettleAll(rows, {i}, "dropped")
  BY <1>1, <1>3, OneRow
<1>5. /\ queue' \in Seq(Made)
      /\ \A j : j # i => (IsQueued(queue', j) <=> IsQueued(queue, j))
      /\ \A j : IsQueued(queue', j) => IsQueued(queue, j)
      /\ \A j : AtMostOnce(queue, j) => AtMostOnce(queue', j)
  BY <1>1, RemoveFirstEntries, RemoveFirstType
<1>6. OnePlace(queue', HeldItems)
  BY <1>5 DEF OnePlace
<1>7. Placed(queue', rows', HeldItems)
  <2>1. CASE rows' = SetStatus(rows, {i}, "deferred")
    BY <1>1, <1>2, <1>3, <1>5, <1>6, <2>1, SetStatusPlaced
  <2>2. CASE rows' = SettleAll(rows, {i}, "dropped")
    BY <1>1, <1>2, <1>3, <1>5, <1>6, <2>2, SettlePlaced
  <2> QED
    BY <1>4, <2>1, <2>2
<1>8. \A j \in Items : rows'[j].status = "queued" => rows[j].status = "queued"
  BY <1>3, <1>4, SetStatusRow, SettleAllRow
<1> QED
  BY <1>1, <1>7, <1>8, ClaimsStay, StillFrame

\* dropById.
LEMMA DropByIdPlaces ==
  ASSUME TypeOK, Created, PlaceInv, NEW i \in Items, dropById(i)
  PROVE  PlaceInv'
<1> USE StartPlaces
<1>1. /\ Droppable # {} /\ queue' \in RemoveFirstOf(queue, i) /\ rows' = settle(rows, i, "dropped")
      /\ UNCHANGED <<msg, hand, stage, batch, locks>>
  BY DEF dropById, Memory
<1>2. "dropped" \in Status \ {"absent", "processing"}
  BY DEF Status
<1>3. rows' = SettleAll(rows, {i}, "dropped")
  BY <1>1, <1>2, OneRow
<1>4. /\ queue' \in Seq(Made)
      /\ \A j : j # i => (IsQueued(queue', j) <=> IsQueued(queue, j))
      /\ \A j : IsQueued(queue', j) => IsQueued(queue, j)
      /\ \A j : AtMostOnce(queue, j) => AtMostOnce(queue', j)
  BY <1>1, RemoveFirstEntries, RemoveFirstType
<1>5. OnePlace(queue', HeldItems)
  BY <1>4 DEF OnePlace
<1>6. Placed(queue', rows', HeldItems)
  <2>1. Placed(queue', SettleAll(rows, {i}, "dropped"), HeldItems)
    BY <1>1, <1>2, <1>4, <1>5, SettlePlaced
  <2> QED
    BY <1>3, <2>1
<1>7. \A j \in Items : rows'[j].status = "queued" => rows[j].status = "queued"
  BY <1>2, <1>3, SettleAllRow
<1> QED
  BY <1>1, <1>6, <1>7, ClaimsStay, StillFrame

\* updatePriority: the entry is taken out and put in at its new place.
LEMMA PriorityPlaces ==
  ASSUME TypeOK, Created, PlaceInv, NEW i \in Items, NEW p \in Nat, updatePriority(i, p)
  PROVE  PlaceInv'
<1> USE StartPlaces
<1>1. /\ IsQueued(queue, i) /\ i \in Made /\ UNCHANGED <<msg, hand, stage, batch, locks>>
      /\ rows' = IF rows[i].status = "absent" THEN rows
                 ELSE [updateStatus(rows, i, "queued") EXCEPT ![i].prio = p]
  BY DEF updatePriority
<1>2. PICK q \in RemoveFirstOf(queue, i) : queue' \in insertSorted(q, i, prio')
  BY DEF updatePriority
<1>3. /\ q \in Seq(Made)
      /\ \A j : IsQueued(q, j) => IsQueued(queue, j)
      /\ \A j : j # i /\ IsQueued(queue, j) => IsQueued(q, j)
      /\ AtMostOnce(queue, i) => ~IsQueued(q, i)
      /\ \A j : AtMostOnce(queue, j) => AtMostOnce(q, j)
  BY <1>2, RemoveFirstEntries, RemoveFirstType
<1>4. /\ queue' \in Seq(Made)
      /\ \A j : IsQueued(queue', j) <=> j = i \/ IsQueued(q, j)
      /\ \A j : AtMostOnce(q, j) /\ (j # i \/ ~IsQueued(q, i)) => AtMostOnce(queue', j)
  <2>1. queue' \in Seq(Made)
    BY <1>1, <1>2, <1>3, InsertType
  <2>2. Made \in SUBSET Nat
    OBVIOUS
  <2> DEFINE P == prio'
             s == queue'
  <2>3. s \in insertSorted(q, i, P)
    BY <1>2
  <2> HIDE DEF P, s
  <2>4. /\ \A j : IsQueued(s, j) <=> j = i \/ IsQueued(q, j)
        /\ \A j : AtMostOnce(q, j) /\ (j # i \/ ~IsQueued(q, i)) => AtMostOnce(s, j)
    BY <1>1, <1>3, <2>2, <2>3, InsertEntries
  <2> QED
    BY <2>1, <2>4 DEF s
<1>5. \A j : IsQueued(queue', j) <=> IsQueued(queue, j)
  BY <1>1, <1>3, <1>4
<1>6. OnePlace(queue', HeldItems)
  BY <1>3, <1>4, <1>5 DEF OnePlace
<1>7. rows' \in [Items -> Row]
  <2>1. updateStatus(rows, i, "queued") \in [Items -> Row]
    BY RowTypes DEF Status
  <2> QED
    BY <1>1, <2>1 DEF Row
<1>8. \A j \in Items :
        /\ rows'[j].by = rows[j].by
        /\ rows'[j].status = IF j = i /\ rows[i].status # "absent" THEN "queued" ELSE rows[j].status
  <2> DEFINE U == updateStatus(rows, i, "queued")
  <2>1. U \in [Items -> Row] /\ "queued" \in Status \ {"absent"}
    BY RowTypes DEF Status
  <2>2. \A j \in Items : /\ U[j].by = rows[j].by
                         /\ U[j].status = IF j = i /\ rows[i].status # "absent" THEN "queued"
                                          ELSE rows[j].status
    BY <2>1, UpdateRow
  <2> HIDE DEF U
  <2>3. \A j \in Items : /\ [U EXCEPT ![i].prio = p][j].by = U[j].by
                         /\ [U EXCEPT ![i].prio = p][j].status = U[j].status
    BY <2>1 DEF Row
  <2> QED
    BY <1>1, <2>2, <2>3 DEF U
<1>9. RowsSafe(queue', rows', HeldItems)
  <2> SUFFICES ASSUME NEW j \in Items
               PROVE  RowSafe(j, rows'[j], IsQueued(queue', j), j \in HeldItems)
    BY DEF RowsSafe
  <2>1. RowSafe(j, rows[j], IsQueued(queue, j), j \in HeldItems)
    BY DEF RowsSafe
  <2> QED
    BY <1>1, <1>5, <1>8, <2>1 DEF RowSafe, Requeueable
<1>10. Placed(queue', rows', HeldItems)
  BY <1>4, <1>6, <1>7, <1>9 DEF Placed
<1> QED
  BY <1>1, <1>8, <1>10, ClaimsStay, StillFrame

\* dropStatusUpdatesByTaskId.
LEMMA SupersededPlaces ==
  ASSUME TypeOK, Created, PlaceInv, NEW t, dropStatusUpdatesByTaskId(t)
  PROVE  PlaceInv'
<1> USE StartPlaces
<1> DEFINE S == {i \in Items : /\ IsQueued(queue, i)
                               /\ msg[i].type = "task_status_update"
                               /\ ~isStrictStateItem(msg[i]) /\ msg[i].ref["task"] = t}
<1>1. /\ S # {} /\ queue' \in Without(queue, S) /\ rows' = SetStatus(rows, S, "dropped")
      /\ UNCHANGED <<msg, hand, stage, batch, locks>>
  BY DEF dropStatusUpdatesByTaskId, Memory
<1>2. \A j \in S : j \in Items /\ j \notin HeldItems /\ rows[j].by # "self"
  BY WaitingApart
<1>3. "dropped" \in Status \ {"absent", "processing"}
  BY DEF Status
<1> HIDE DEF S
<1>4. /\ queue' \in Seq(Made)
      /\ \A j : IsQueued(queue', j) <=> IsQueued(queue, j) /\ j \notin S
      /\ \A j : AtMostOnce(queue, j) => AtMostOnce(queue', j)
  BY <1>1, WithoutEntries, WithoutType
<1>5. OnePlace(queue', HeldItems)
  BY <1>4 DEF OnePlace
<1>6. Placed(queue', rows', HeldItems)
  BY <1>1, <1>2, <1>3, <1>4, <1>5, SetStatusPlaced
<1>7. \A j \in Items : rows'[j].status = "queued" => rows[j].status = "queued"
  BY <1>1, <1>3, SetStatusRow
<1> QED
  BY <1>1, <1>6, <1>7, ClaimsStay, StillFrame

\* cleanStaleProcessing.
LEMMA CleanPlaces ==
  ASSUME TypeOK, Created, PlaceInv, cleanStaleProcessing
  PROVE  PlaceInv'
<1> USE StartPlaces
<1>1. /\ rows' = markStaleProcessingAsDropped(rows)
      /\ UNCHANGED <<msg, hand, stage, batch, locks, queue>>
  BY DEF cleanStaleProcessing, Memory
<1>2. ASSUME NEW j \in Items
      PROVE  IF Orphan(rows[j])
             THEN IF isStrictStateItem(msg[j]) THEN rows'[j].status = "queued" /\ rows'[j].by = "none"
                  ELSE rows'[j].status = "dropped" /\ rows'[j].by = rows[j].by
             ELSE rows'[j] = rows[j]
  BY <1>1, MarkStaleRow
<1>3. ASSUME NEW j \in Made PROVE ~(isStrictStateItem(msg[j]) /\ msg[j].type \in {"human_chat", "a2a_message"})
  <2>1. msg[j] \in Messages
    BY ElementOfSeq DEF TypeOK, Made
  <2> QED
    BY <2>1, MailboxAssumption DEF isStrictStateItem
<1>4. RowsSafe(queue', rows', HeldItems)
  <2> SUFFICES ASSUME NEW j \in Items
               PROVE  RowSafe(j, rows'[j], IsQueued(queue, j), j \in HeldItems)
    BY <1>1 DEF RowsSafe
  <2>1. RowSafe(j, rows[j], IsQueued(queue, j), j \in HeldItems)
    BY DEF RowsSafe
  <2>2. CASE Orphan(rows[j]) /\ isStrictStateItem(msg[j])
    <3>1. j \in Made
      BY <2>2, StoredMade DEF Orphan
    <3>2. j \in HeldItems
      BY <1>3, <2>1, <2>2, <3>1 DEF RowSafe, Orphan
    <3> QED
      BY <1>2, <2>2, <3>2 DEF RowSafe
  <2>3. CASE Orphan(rows[j]) /\ ~isStrictStateItem(msg[j])
    BY <1>2, <2>1, <2>3 DEF RowSafe, Requeueable
  <2>4. CASE ~Orphan(rows[j])
    BY <1>2, <2>1, <2>4
  <2> QED
    BY <2>2, <2>3, <2>4
<1>5. rows' \in [Items -> Row]
  <2>1. markStaleProcessingAsDropped(rows) \in Tables(MaxItems)
    BY AllTables, MarkStaleType
  <2> QED
    BY <1>1, <2>1, AllTables
<1>6. Placed(queue', rows', HeldItems)
  BY <1>1, <1>4, <1>5 DEF Placed
<1>7. \A j \in Items : rows'[j].status = "queued" =>
        rows[j].status = "queued" \/ isStrictStateItem(msg[j])
  BY <1>2
<1> QED
  BY <1>1, <1>6, <1>7, ClaimsStay, StillFrame

\* renewLease, LeaseExpires and Age: nothing that PlaceInv speaks of.
LEMMA TimePlaces ==
  ASSUME TypeOK, Created, TypeOK', PlaceInv, UNCHANGED <<msg, hand, stage, batch, locks, queue>>,
         \A j \in Items : rows'[j].status = rows[j].status /\ rows'[j].by = rows[j].by
  PROVE  PlaceInv'
<1> USE StartPlaces
<1>1. RowsSafe(queue', rows', HeldItems)
  <2> SUFFICES ASSUME NEW j \in Items
               PROVE  RowSafe(j, rows'[j], IsQueued(queue, j), j \in HeldItems)
    BY DEF RowsSafe
  <2>1. RowSafe(j, rows[j], IsQueued(queue, j), j \in HeldItems)
    BY DEF RowsSafe
  <2> QED
    BY <2>1 DEF RowSafe
<1>2. Placed(queue', rows', HeldItems)
  BY <1>1 DEF TypeOK, Placed
<1> QED
  BY <1>2, ClaimsStay, StillFrame

\* The recovery: what was queued or in processing is queued or dropped, and
\* all that stays queued is put into the array.
LEMMA RestartPlaces ==
  ASSUME TypeOK, Created, NEW R \in [Items -> Row], R \in Tables(Len(msg)), Restart(R)
  PROVE  PlaceInv'
<1> DEFINE O == Orphaned(R)
           R1 == markStaleProcessingAsDropped(O)
           waiting == {i \in Items : R1[i].status = "queued"}
           expired == {i \in waiting : R1[i].age > TTL(msg[i])}
           live == waiting \ expired
           R2 == SetStatus(R1, expired, "dropped")
           H(q) == At(q, SpareHeartbeats(q))
           M(q) == At(q, MergedAway(q, MergeKey))
           R3(q) == SetStatus(R2, H(q), "dropped")
           R4(q) == SetStatus(R3(q), M(q), "merged")
<1>1. /\ Len(msg) \in Nat /\ Made \in SUBSET Items
      /\ "dropped" \in Status \ {"absent"} /\ "merged" \in Status \ {"absent"}
  BY MadeItems DEF Status
<1>2. /\ \A i \in Items : O[i].by # "self" /\ O[i].status = R[i].status
      /\ O \in [Items -> Row]
  <2>1. O \in Tables(Len(msg))
    BY <1>1, OrphanedType
  <2>2. \A i \in Items : O[i].by # "self" /\ O[i].status = R[i].status
    BY DEF Orphaned, Row
  <2> QED
    BY <2>1, <2>2 DEF Tables
<1>3. R1 \in Tables(Len(msg)) /\ R1 \in [Items -> Row]
  <2>1. O \in Tables(Len(msg))
    BY <1>1, OrphanedType
  <2> HIDE DEF O
  <2> QED
    BY <1>1, <2>1, MarkStaleType DEF Tables
<1>4. \A i \in Items : R1[i].by # "self" /\ R1[i].status # "processing"
  <2> HIDE DEF O
  <2> SUFFICES ASSUME NEW i \in Items PROVE R1[i].by # "self" /\ R1[i].status # "processing"
    OBVIOUS
  <2>1. IF Orphan(O[i])
        THEN IF isStrictStateItem(msg[i]) THEN R1[i].status = "queued" /\ R1[i].by = "none"
             ELSE R1[i].status = "dropped" /\ R1[i].by = O[i].by
        ELSE R1[i] = O[i]
    BY <1>2, MarkStaleRow
  <2> QED
    BY <1>2, <2>1 DEF Orphan
<1> HIDE DEF O, R1
<1>5. live \in SUBSET Made /\ IsFiniteSet(live)
  <2>1. live \in SUBSET Made
    BY <1>1, <1>3 DEF Tables, Made, Items
  <2> HIDE DEF live
  <2> QED
    BY <1>1, <2>1, PositionsFinite DEF Made
<1>6. PICK q \in Loaded(<<>>, live, prio') :
        /\ rows' = R4(q)
        /\ queue' \in Kept(q, (1..Len(q)) \ (SpareHeartbeats(q) \union MergedAway(q, MergeKey)))
  BY DEF Restart, recoverStaleItems, R1, O
<1>7. /\ q \in Seq(Made)
      /\ \A i : IsQueued(q, i) <=> i \in live
      /\ \A i : AtMostOnce(q, i)
  <2>1. <<>> \in Seq(Made) /\ \A i : ~IsQueued(<<>>, i) /\ AtMostOnce(<<>>, i)
    BY EmptySeq DEF IsQueued, AtMostOnce
  <2> HIDE DEF live
  <2> QED
    BY <1>1, <1>5, <1>6, <2>1, LoadedEntries, LoadedType
<1> DEFINE K == (1..Len(q)) \ (SpareHeartbeats(q) \union MergedAway(q, MergeKey))
<1>8. /\ \A i : (\E k \in K : q[k] = i) => IsQueued(q, i)
      /\ \A i : IsQueued(q, i) /\ i \notin H(q) /\ i \notin M(q) => \E k \in K : q[k] = i
  BY DEF At, IsQueued
<1>9. /\ queue' \in Seq(Made)
      /\ \A i : IsQueued(queue', i) <=> \E k \in K : q[k] = i
      /\ \A i : AtMostOnce(queue', i)
  <2>1. K \in SUBSET (1..Len(q)) /\ queue' \in Kept(q, K)
    BY <1>6
  <2>2. queue' \in Seq(Made)
    BY <1>7, <2>1, KeptType
  <2> HIDE DEF K
  <2>3. /\ \A i : IsQueued(queue', i) <=> \E k \in K : q[k] = i
        /\ \A i : AtMostOnce(q, i) => AtMostOnce(queue', i)
    BY <1>7, <2>1, KeptEntries
  <2> QED
    BY <1>7, <2>2, <2>3
<1>10. ASSUME NEW i \in Items
       PROVE  /\ rows'[i].by # "self" /\ rows'[i].status # "processing"
              /\ rows'[i].status = "queued" => IsQueued(queue', i)
  <2>1. R2 \in [Items -> Row]
    BY <1>1, <1>3, RowTypes
  <2>2. /\ R2[i].by = R1[i].by
        /\ R2[i].status = IF i \in expired /\ R1[i].status # "absent" THEN "dropped" ELSE R1[i].status
    BY <1>1, <1>3, SetStatusRow
  <2> HIDE DEF R2
  <2>3. R3(q) \in [Items -> Row]
    BY <1>1, <2>1, RowTypes
  <2>4. /\ R3(q)[i].by = R2[i].by
        /\ R3(q)[i].status = IF i \in H(q) /\ R2[i].status # "absent" THEN "dropped" ELSE R2[i].status
    BY <1>1, <2>1, SetStatusRow
  <2> HIDE DEF R3
  <2>5. /\ R4(q)[i].by = R3(q)[i].by
        /\ R4(q)[i].status = IF i \in M(q) /\ R3(q)[i].status # "absent" THEN "merged"
                             ELSE R3(q)[i].status
    BY <1>1, <2>3, SetStatusRow
  <2> HIDE DEF R4, H, M, K, expired
  <2>6. rows'[i].by # "self" /\ rows'[i].status # "processing"
    BY <1>4, <1>6, <2>2, <2>4, <2>5
  <2>7. ASSUME rows'[i].status = "queued" PROVE IsQueued(queue', i)
    <3>1. i \in live /\ i \notin H(q) /\ i \notin M(q)
      BY <1>6, <2>2, <2>4, <2>5, <2>7
    <3> QED
      BY <1>7, <1>8, <1>9, <3>1
  <2> QED
    BY <2>6, <2>7
<1>11. /\ hand' = [w \in Workers |-> NoItem] /\ stage' = [w \in Workers |-> "idle"]
       /\ batch' = {} /\ locks' = [k \in Keys |-> NoItem] /\ msg' = msg
  BY DEF Restart
<1>12. HeldItems' = {}
  BY <1>11 DEF HeldItems, Busy
<1>13. Placed(queue', rows', HeldItems')
  <2>1. rows' \in [Items -> Row]
    <3>1. R2 \in [Items -> Row] \/ Items = {}
      BY <1>1, <1>3, RowTypes
    <3> HIDE DEF R2
    <3>2. R3(q) \in [Items -> Row] \/ Items = {}
      BY <1>1, <3>1, RowTypes
    <3> HIDE DEF R3
    <3>3. R4(q) \in [Items -> Row] \/ Items = {}
      BY <1>1, <3>2, RowTypes
    <3>4. Items = {} => R4(q) \in [Items -> Row]
      BY DEF SetStatus
    <3> QED
      BY <1>6, <3>3, <3>4
  <2>2. OnePlace(queue', {})
    BY <1>9 DEF OnePlace
  <2>3. RowsSafe(queue', rows', {})
    <3>1. ASSUME NEW i \in Items PROVE RowSafe(i, rows'[i], IsQueued(queue', i), i \in {})
      BY <1>10 DEF RowSafe
    <3> QED
      BY <3>1 DEF RowsSafe
  <2> QED
    BY <1>9, <1>12, <2>1, <2>2, <2>3 DEF Placed
<1>14. Placed(queue, rows, HeldItems)'
  BY <1>11, <1>13, SameMessages
<1>15. Shape' /\ OneHand' /\ ClaimKept'
  BY <1>11 DEF Shape, OneHand, ClaimKept, Busy
<1> QED
  BY <1>14, <1>15 DEF PlaceInv

\* Every step of the mailbox keeps what is placed.
LEMMA StepPlaces ==
  ASSUME TypeOK, Created, TypeOK', PlaceInv, [Next]_vars
  PROVE  PlaceInv'
<1> USE StartPlaces
<1>1. CASE UNCHANGED vars
  BY <1>1, TimePlaces DEF vars
<1>2. ASSUME NEW m \in Messages, enqueue(m) PROVE PlaceInv'
  BY <1>2, EnqueuePlaces
<1>3. ASSUME NEW w \in Workers,
             \/ dequeue(w) \/ dequeueNothing(w) \/ lockEntities(w) \/ unlockEntities(w)
             \/ complete(w) \/ requeue(w) \/ drop(w) \/ deferDequeued(w)
      PROVE  PlaceInv'
  BY <1>3, DequeuePlaces, LockPlaces, SettlePlaces
<1>4. ASSUME NEW w \in Workers,
             \/ resurfaceDue(w) \/ preTriage(w) \/ focus(w) \/ abortDeliberation(w)
             \/ applyDeliberationResult(w) \/ shutdown(w)
      PROVE  PlaceInv'
  BY <1>4, ResurfacePlaces, PreTriagePlaces, FocusPlaces, AbortPlaces, DeliberationPlaces,
     ShutdownPlaces
<1>5. ASSUME NEW w \in Workers, NEW i \in Items, merge(w, i) PROVE PlaceInv'
  BY <1>5, MergePlaces
<1>6. ASSUME NEW w \in Workers, renewLease(w) PROVE PlaceInv'
  <2>1. rows' = [rows EXCEPT ![hand[w]].valid = TRUE] /\ UNCHANGED <<msg, hand, stage, batch, locks, queue>>
    BY <1>6 DEF renewLease, Memory
  <2>2. \A j \in Items : rows'[j].status = rows[j].status /\ rows'[j].by = rows[j].by
    BY <2>1 DEF Row
  <2> QED
    BY <2>1, <2>2, TimePlaces
<1>7. ASSUME NEW i \in Items, LeaseExpires(i) PROVE PlaceInv'
  <2>1. rows' = [rows EXCEPT ![i].valid = FALSE] /\ UNCHANGED <<msg, hand, stage, batch, locks, queue>>
    BY <1>7 DEF LeaseExpires, Memory
  <2>2. \A j \in Items : rows'[j].status = rows[j].status /\ rows'[j].by = rows[j].by
    BY <2>1 DEF Row
  <2> QED
    BY <2>1, <2>2, TimePlaces
<1>8. ASSUME Age PROVE PlaceInv'
  <2>1. /\ rows' = [i \in Items |-> IF rows[i].status \notin Open \/ rows[i].age >= MaxAge
                                    THEN rows[i] ELSE [rows[i] EXCEPT !.age = @ + 1]]
        /\ UNCHANGED <<msg, hand, stage, batch, locks, queue>>
    BY <1>8 DEF Age, Memory
  <2>2. \A j \in Items : rows'[j].status = rows[j].status /\ rows'[j].by = rows[j].by
    BY <2>1 DEF Row
  <2> QED
    BY <2>1, <2>2, TimePlaces
<1>9. ASSUME NEW i \in Items, deferItem(i) \/ dropItem(i) \/ dropById(i) PROVE PlaceInv'
  BY <1>9, ToolPlaces, DropByIdPlaces
<1>10. ASSUME NEW i \in Items, NEW p \in Priorities, updatePriority(i, p) PROVE PlaceInv'
  <2>1. p \in Nat
    BY MailboxAssumption DEF Priorities, MessageType
  <2> QED
    BY <1>10, <2>1, PriorityPlaces
<1>11. ASSUME NEW t, dropStatusUpdatesByTaskId(t) PROVE PlaceInv'
  BY <1>11, SupersededPlaces
<1>12. ASSUME cleanStaleProcessing PROVE PlaceInv'
  BY <1>12, CleanPlaces
<1>13. ASSUME Crash PROVE PlaceInv'
  <2>1. rows \in Tables(Len(msg)) /\ Restart(rows)
    BY <1>13 DEF Crash, Created
  <2> QED
    BY <2>1, RestartPlaces
<1>14. ASSUME NEW w \in Workers, NEW s \in {"queued", "completed", "deferred", "dropped"},
              CrashWhileSettling(w, s)
       PROVE  PlaceInv'
  <2>1. stage[w] = "working" /\ Restart(updateStatus(rows, hand[w], s))
    BY <1>14 DEF CrashWhileSettling
  <2>2. updateStatus(rows, hand[w], s) \in Tables(Len(msg))
    BY <2>1, InHand, MadeItems, UpdateStatusType DEF Status, Busy, Created
  <2> QED
    BY <2>1, <2>2, AllTables, RestartPlaces
<1> QED
  BY <1>1, <1>2, <1>3, <1>4, <1>5, <1>6, <1>7, <1>8, <1>9, <1>10, <1>11, <1>12, <1>13, <1>14 DEF Next

\* A mailbox that has just been created: nothing is anywhere.
LEMMA InitPlaces == Init => PlaceInv
<1> SUFFICES ASSUME Init PROVE PlaceInv
  OBVIOUS
<1>1. /\ queue = <<>> /\ queue \in Seq(Made) /\ \A i : ~IsQueued(queue, i) /\ AtMostOnce(queue, i)
  BY EmptySeq DEF Init, IsQueued, AtMostOnce
<1>2. HeldItems = {}
  BY DEF Init, HeldItems, Busy
<1>3. rows \in [Items -> Row] /\ \A i \in Items : rows[i].status = "absent" /\ rows[i].by = "none"
  BY DEF Init, NoRow, Row, Status
<1>4. Placed(queue, rows, HeldItems)
  BY <1>1, <1>2, <1>3 DEF Placed, OnePlace, RowsSafe, RowSafe
<1>5. Shape /\ OneHand /\ ClaimKept
  BY DEF Init, Shape, OneHand, ClaimKept, Busy
<1> QED
  BY <1>4, <1>5 DEF PlaceInv


-----------------------------------------------------------------------------
(***************************************************************************)
(* What a row does not become.  The rows of strict items are not dropped,  *)
(* deferred or merged behind the back of the worker that holds them; no    *)
(* row is deleted.                                                         *)
(***************************************************************************)
TakenAway == {"dropped", "deferred", "merged"}
Deleted == {"absent"}

\* The row of item i has none of the statuses in N.
Stays(R, i, N) == R[i].status \notin N

\* Queueing a row again and claiming it take nothing away.
LEMMA ClaimStays ==
  ASSUME NEW R \in [Items -> Row], NEW i \in Items,
         NEW N \in {TakenAway, Deleted}, Stays(R, i, N), NEW h \in Items
  PROVE  Stays(requeueItem(R, h), i, N) /\ Stays(claimItem(R, h), i, N)
<1>1. Stays(requeueItem(R, h), i, N)
  BY RequeueRow DEF Stays, TakenAway, Deleted
<1>2. Stays(claimItem(R, h), i, N)
  BY ClaimRow DEF Stays, TakenAway, Deleted
<1> QED
  BY <1>1, <1>2

\* Nor does a status that is written to other rows, or is not one of them.
LEMMA WriteStays ==
  ASSUME NEW R \in [Items -> Row], NEW i \in Items, NEW N, Stays(R, i, N), NEW S,
         NEW t \in Status \ {"absent"}, i \notin S \/ t \notin N
  PROVE  Stays(SetStatus(R, S, t), i, N) /\ Stays(SettleAll(R, S, t), i, N)
<1>1. Stays(SetStatus(R, S, t), i, N)
  BY SetStatusRow DEF Stays
<1>2. Stays(SettleAll(R, S, t), i, N)
  BY SettleAllRow DEF Stays
<1> QED
  BY <1>1, <1>2

\* A strict item is neither informational nor merged.
LEMMA StrictItems ==
  ASSUME TypeOK, NEW i \in Made, isStrictStateItem(msg[i])
  PROVE  /\ msg[i].type # "heartbeat"
         /\ GroupKey(msg[i])[2] = None /\ MergeKey(msg[i])[2] = None
<1>1. msg[i] \in Messages
  BY ElementOfSeq DEF TypeOK, Made
<1>2. msg[i].type # "heartbeat"
  BY <1>1, MailboxAssumption DEF isStrictStateItem
<1>3. GroupKey(msg[i])[2] = None
  BY DEF GroupKey
<1>4. MergeKey(msg[i])[2] = None
  BY DEF MergeKey
<1> QED
  BY <1>2, <1>3, <1>4

\* TakeHead claims one row.
LEMMA TakeHeadStays ==
  ASSUME NEW w, NEW R \in [Items -> Row], NEW q \in Seq(Made), Made \subseteq Items,
         NEW i \in Items, NEW N \in {TakenAway, Deleted}, Stays(R, i, N), TakeHead(w, q, R)
  PROVE  Stays(rows', i, N)
<1>1. rows' = R \/ \E n \in Claimed(q, R) : rows' = claimItem(R, q[n])
  BY DEF TakeHead
<1>2. \A n \in Claimed(q, R) : q[n] \in Items
  BY ElementOfSeq DEF Claimed
<1> QED
  BY <1>1, <1>2, ClaimStays

\* preTriage and abortDeliberation.
LEMMA TriageStays ==
  ASSUME TypeOK, Created, PlaceInv, NEW w \in Workers, preTriage(w) \/ abortDeliberation(w),
         NEW i \in Items, rows[i].status # "absent",
         NEW N \in {TakenAway, Deleted}, Stays(rows, i, N), N = Deleted \/ isStrictStateItem(msg[i])
  PROVE  Stays(rows', i, N)
<1> USE StartPlaces
<1> DEFINE h == hand[w]
           R1 == requeueItem(rows, h)
<1>1. Serial /\ stage[w] \in {"claimed", "deliberating"}
  BY DEF preTriage, abortDeliberation
<1>2. i \in Made /\ Made \subseteq Items /\ h \in Made /\ h \in Items
  BY <1>1, StoredMade, SerialHand
<1>3. R1 \in [Items -> Row] /\ Stays(R1, i, N)
  BY <1>2, ClaimRowTypes, ClaimStays
<1>4. \A q \in insertSorted(queue, h, prio) : q \in Seq(Made)
  BY <1>1, SerialHand
<1> HIDE DEF R1
<1>5. CASE abortDeliberation(w)
  <2>1. PICK q \in insertSorted(queue, h, prio) : TakeHead(w, q, R1)
    BY <1>5 DEF abortDeliberation, R1
  <2> QED
    BY <1>2, <1>3, <1>4, <2>1, TakeHeadStays
<1>6. CASE preTriage(w)
  <2> DEFINE Purged(q) == purgeStaleItems(q, R1)
             R2(q) == SetStatus(R1, Purged(q), "dropped")
             A(q) == At(q, consolidateByEntity(q))
             R3(q, r) == SetStatus(R2(q), A(r), "merged")
  <2>1. \E q1 \in insertSorted(queue, h, prio) :
        \E q2 \in Without(q1, Purged(q1)) :
        \E q3 \in Kept(q2, (1..Len(q2)) \ consolidateByEntity(q2)) :
          TakeHead(w, q3, R3(q1, q2))
    BY <1>6 DEF preTriage, R1
  <2>2. PICK q1 \in insertSorted(queue, h, prio) :
        \E q2 \in Without(q1, Purged(q1)) :
        \E q3 \in Kept(q2, (1..Len(q2)) \ consolidateByEntity(q2)) :
          TakeHead(w, q3, R3(q1, q2))
    BY <2>1
  <2>3. PICK q2 \in Without(q1, Purged(q1)) :
        \E q3 \in Kept(q2, (1..Len(q2)) \ consolidateByEntity(q2)) :
          TakeHead(w, q3, R3(q1, q2))
    BY <2>2
  <2>4. PICK q3 \in Kept(q2, (1..Len(q2)) \ consolidateByEntity(q2)) :
          TakeHead(w, q3, R3(q1, q2))
    BY <2>3
  <2>5. q2 \in Seq(Made) /\ q3 \in Seq(Made)
    <3>1. q2 \in Seq(Made)
      BY <1>4, WithoutType
    <3>2. (1..Len(q2)) \ consolidateByEntity(q2) \in SUBSET (1..Len(q2))
      OBVIOUS
    <3> QED
      BY <3>1, <3>2, KeptType
  <2>6. i \notin Purged(q1) \/ "dropped" \notin N
    BY DEF purgeStaleItems, isNeverPurgeable, Deleted
  <2>7. i \notin A(q2) \/ "merged" \notin N
    BY <1>2, StrictItems DEF At, consolidateByEntity, MergedAway, Deleted
  <2>8. "dropped" \in Status \ {"absent"} /\ "merged" \in Status \ {"absent"}
    BY DEF Status
  <2> HIDE DEF Purged, A
  <2>9. R2(q1) \in [Items -> Row] /\ Stays(R2(q1), i, N)
    BY <1>2, <1>3, <2>6, <2>8, RowTypes, WriteStays
  <2> HIDE DEF R2
  <2>10. R3(q1, q2) \in [Items -> Row] /\ Stays(R3(q1, q2), i, N)
    BY <1>2, <2>7, <2>8, <2>9, RowTypes, WriteStays
  <2> HIDE DEF R3
  <2> QED
    BY <1>2, <2>4, <2>5, <2>10, TakeHeadStays
<1> QED
  BY <1>5, <1>6

\* The item chosen and the one put back are queued again or claimed.
LEMMA ChosenStays ==
  ASSUME NEW R \in [Items -> Row], NEW h \in Items, NEW j \in Items, NEW i \in Items,
         NEW N \in {TakenAway, Deleted}, Stays(R, i, N)
  PROVE  \A q : \A t \in Chosen(q, R, h, j) :
           t.rows \in [Items -> Row] /\ Stays(t.rows, i, N)
<1> SUFFICES ASSUME NEW q, NEW t \in Chosen(q, R, h, j)
             PROVE  t.rows \in [Items -> Row] /\ Stays(t.rows, i, N)
  OBVIOUS
<1> DEFINE R1 == requeueItem(R, h)
<1>1. R1 \in [Items -> Row] /\ Stays(R1, i, N)
  BY ClaimRowTypes, ClaimStays
<1>2. t.rows \in {R, R1, claimItem(R1, j), claimItem(R1, h)}
  BY DEF Chosen
<1> HIDE DEF R1
<1> QED
  BY <1>1, <1>2, ClaimRowTypes, ClaimStays

\* applyDeliberationResult: a strict item is protected, or not in the hand.
LEMMA DeliberationStays ==
  ASSUME TypeOK, Created, PlaceInv, NEW w \in Workers, applyDeliberationResult(w),
         NEW i \in Items, NEW N \in {TakenAway, Deleted}, Stays(rows, i, N),
         N = Deleted \/ isStrictStateItem(msg[i])
  PROVE  Stays(rows', i, N)
<1> USE StartPlaces
<1> DEFINE h == hand[w]
<1>1. /\ Serial /\ stage[w] = "deliberating" /\ h \in Items /\ (i # h \/ N = Deleted)
  BY SerialHand DEF applyDeliberationResult, PlaceInv, Shape
<1>2. PICK j \in Made : \E verdict \in [Listed(w) \ {j} -> Verdicts] : Decide(w, j, verdict)
  BY DEF applyDeliberationResult, Made
<1>3. PICK verdict \in [Listed(w) \ {j} -> Verdicts] : Decide(w, j, verdict)
  BY <1>2
<1> DEFINE Said(v) == {k \in DOMAIN verdict :
                         verdict[k] = v /\ (k = h \/ ~isProtected(msg[k]))}
           C == Said("complete") \ {h}
           B(t) == {k \in Said("batch") : Takes(t.queue, t.rows, k)}
           D(t) == {k \in Said("defer") : IsQueued(t.queue, k)}
           R(t) == [k \in Items |-> IF k \in B(t) THEN claimItem(t.rows, k)[k] ELSE t.rows[k]]
           X == SettleAll(rows, C, "completed")
<1>4. \E q : \E t \in Chosen(q, X, h, j) :
        rows' = SettleAll(SetStatus(R(t), D(t), "deferred"), Said("drop"), "dropped")
  BY <1>3 DEF Decide
<1>5. /\ N = Deleted \/ \A v : i \notin Said(v)
      /\ {"dropped", "deferred", "completed"} \cap N = {} \/ N = TakenAway
      /\ "completed" \notin N
  BY <1>1 DEF isProtected, TakenAway, Deleted
<1>6. PICK q : \E t \in Chosen(q, X, h, j) :
        rows' = SettleAll(SetStatus(R(t), D(t), "deferred"), Said("drop"), "dropped")
  BY <1>4
<1>7. PICK t \in Chosen(q, X, h, j) :
        rows' = SettleAll(SetStatus(R(t), D(t), "deferred"), Said("drop"), "dropped")
  BY <1>6
<1>8. /\ "completed" \in Status \ {"absent"} /\ "deferred" \in Status \ {"absent"}
      /\ "dropped" \in Status \ {"absent"}
  BY DEF Status
<1> HIDE DEF Said, h
<1>9. X \in [Items -> Row] /\ Stays(X, i, N)
  <2> HIDE DEF C
  <2> QED
    BY <1>5, <1>8, RowTypes, WriteStays
<1> HIDE DEF X
<1>10. t.rows \in [Items -> Row] /\ Stays(t.rows, i, N)
  <2> HIDE DEF R, D, B, C
  <2>1. j \in Items
    OBVIOUS
  <2>2. \A p : \A z \in Chosen(p, X, h, j) :
          z.rows \in [Items -> Row] /\ Stays(z.rows, i, N)
    BY <1>1, <1>9, <2>1, ChosenStays
  <2> QED
    BY <2>2
<1>11. R(t) \in [Items -> Row] /\ Stays(R(t), i, N)
  <2> DEFINE S == t.rows
  <2>0. S \in [Items -> Row]
    BY <1>10
  <2> HIDE DEF S
  <2>4. \A k \in Items : claimItem(S, k) \in [Items -> Row]
    BY <2>0, ClaimRowTypes
  <2>1. \A k \in Items : claimItem(t.rows, k)[k] \in Row
    BY <2>4 DEF S
  <2>2. R(t)[i] = t.rows[i] \/ R(t)[i] = claimItem(t.rows, i)[i]
    OBVIOUS
  <2> HIDE DEF B
  <2>3. R(t) \in [Items -> Row]
    BY <1>10, <2>1
  <2>5. Stays(claimItem(t.rows, i), i, N)
    BY <1>10, ClaimStays
  <2> QED
    BY <1>10, <2>2, <2>3, <2>5 DEF Stays
<1>12. i \notin D(t) \/ "deferred" \notin N
  BY <1>5 DEF Deleted
<1> DEFINE V == SetStatus(R(t), D(t), "deferred")
<1> HIDE DEF R, D
<1>13. V \in [Items -> Row] /\ Stays(V, i, N)
  BY <1>8, <1>11, <1>12, RowTypes, WriteStays
<1>14. rows' = SettleAll(V, Said("drop"), "dropped")
  BY <1>7
<1> HIDE DEF V
<1>15. Stays(SettleAll(V, Said("drop"), "dropped"), i, N)
  <2>1. i \notin Said("drop") \/ "dropped" \notin N
    BY <1>5 DEF Deleted
  <2> QED
    BY <1>8, <1>13, <2>1, WriteStays
<1> QED
  BY <1>14, <1>15

\* A turn that ends settles the item in its hand; its batch is queued again
\* or completed.
LEMMA EndTurnStays ==
  ASSUME TypeOK, Created, PlaceInv, NEW w \in Workers, stage[w] = "working",
         NEW s \in Status \ {"absent"}, NEW t \in {"queued", "completed"}, NEW Q, EndTurn(w, s, Q, t),
         NEW i \in Items, NEW N \in {TakenAway, Deleted}, Stays(rows, i, N),
         N = Deleted \/ i # hand[w]
  PROVE  Stays(rows', i, N)
<1> USE StartPlaces
<1> DEFINE R1 == settle(rows, hand[w], s)
<1>1. hand[w] \in Items
  BY InHand DEF Busy
<1>2. R1 = SettleAll(rows, {hand[w]}, s)
  BY <1>1, OneRow
<1>3. (i \notin {hand[w]} \/ s \notin N) /\ t \in Status \ {"absent"} /\ t \notin N
  BY DEF Status, TakenAway, Deleted
<1>4. R1 \in [Items -> Row] /\ Stays(R1, i, N)
  BY <1>2, <1>3, RowTypes, WriteStays
<1>5. rows' = SettleAll(R1, batch, t)
  BY DEF EndTurn
<1> HIDE DEF R1
<1>6. Stays(SettleAll(R1, batch, t), i, N)
  BY <1>3, <1>4, WriteStays
<1> QED
  BY <1>5, <1>6

\* shutdown.
LEMMA ShutdownStays ==
  ASSUME TypeOK, Created, PlaceInv, NEW w \in Workers, shutdown(w),
         NEW i \in Items, NEW N \in {TakenAway, Deleted}, Stays(rows, i, N)
  PROVE  Stays(rows', i, N)
<1> USE StartPlaces
<1> DEFINE h == hand[w]
<1>1. h \in Items
  BY InHand DEF shutdown, Busy
<1>2. \/ rows' = rows \/ rows' = save(rows, h, prio[h])
      \/ \E e \in Items : rows' = requeueItem(rows, e)
  BY <1>1 DEF shutdown, reEnqueueOnShutdown, reinjectExistingRow, SameRound
<1>3. CASE rows' = save(rows, h, prio[h])
  BY <1>1, <1>3 DEF save, Waiting, Stays, TakenAway, Deleted
<1>4. CASE \E e \in Items : rows' = requeueItem(rows, e)
  BY <1>4, ClaimStays
<1> QED
  BY <1>2, <1>3, <1>4

\* The recovery queues an orphan that is strict again and inserts it; only
\* one that has outlived its time to live expires.
LEMMA RecoveryStays ==
  ASSUME TypeOK, Created, NEW R \in [Items -> Row], R \in Tables(Len(msg)), recoverStaleItems(R),
         NEW i \in Items, R[i].status # "absent", NEW N \in {TakenAway, Deleted},
         \/ N = Deleted
         \/ /\ R[i].status \in {"queued", "processing"}
            /\ isStrictStateItem(msg[i]) /\ R[i].age <= TTL(msg[i])
  PROVE  Stays(rows', i, N)
<1> DEFINE O == Orphaned(R)
           R1 == markStaleProcessingAsDropped(O)
           waiting == {j \in Items : R1[j].status = "queued"}
           expired == {j \in waiting : R1[j].age > TTL(msg[j])}
           live == waiting \ expired
           R2 == SetStatus(R1, expired, "dropped")
           H(q) == At(q, SpareHeartbeats(q))
           M(q) == At(q, MergedAway(q, MergeKey))
           R3(q) == SetStatus(R2, H(q), "dropped")
           R4(q) == SetStatus(R3(q), M(q), "merged")
<1>1. /\ Len(msg) \in Nat /\ Made \in SUBSET Items
      /\ "dropped" \in Status \ {"absent"} /\ "merged" \in Status \ {"absent"}
  BY MadeItems DEF Status
<1>2. i \in Made
  BY <1>1 DEF Tables, Made, Items
<1>3. O \in [Items -> Row] /\ O[i].status = R[i].status /\ O[i].age = R[i].age
  <2>1. O \in Tables(Len(msg))
    BY <1>1, OrphanedType
  <2> QED
    BY <2>1 DEF Tables, Orphaned, Row
<1>4. R1 \in [Items -> Row] /\ R1 \in Tables(Len(msg))
  <2>1. O \in Tables(Len(msg))
    BY <1>1, OrphanedType
  <2> HIDE DEF O
  <2> QED
    BY <1>1, <2>1, MarkStaleType DEF Tables
<1>5. ASSUME R[i].status \in {"queued", "processing"}, isStrictStateItem(msg[i]),
             R[i].age <= TTL(msg[i])
      PROVE  R1[i].status \in {"queued", "processing"} /\ ~(R1[i].age > TTL(msg[i]))
  <2> HIDE DEF O
  <2>1. TTL(msg[i]) \in {0, 1} /\ R[i].age \in 0..2
    BY DEF TTL, Row
  <2>2. CASE Orphan(O[i])
    <3>1. R1[i] = requeueItem(O, i)[i]
      BY <1>5, <2>2 DEF markStaleProcessingAsDropped
    <3>2. O[i].status \in Requeueable
      BY <2>2 DEF Orphan, Requeueable
    <3>3. R1[i] = Waiting(O[i].prio)
      BY <1>3, <3>1, <3>2 DEF requeueItem
    <3> QED
      BY <2>1, <3>3 DEF Waiting
  <2>3. CASE ~Orphan(O[i])
    <3>1. R1[i] = O[i]
      BY <2>3 DEF markStaleProcessingAsDropped
    <3> QED
      BY <1>3, <1>5, <2>1, <3>1
  <2> QED
    BY <2>2, <2>3
<1> HIDE DEF O, R1
<1>6. live \in SUBSET Made /\ IsFiniteSet(live)
  <2>1. live \in SUBSET Made
    BY <1>1, <1>4 DEF Tables, Made, Items
  <2> HIDE DEF live
  <2> QED
    BY <1>1, <2>1, PositionsFinite DEF Made
<1>7. PICK q \in Loaded(<<>>, live, prio') : rows' = R4(q)
  BY DEF recoverStaleItems, R1, O
<1>8. i \notin expired \/ "dropped" \notin N
  BY <1>5 DEF Deleted
<1>9. /\ i \notin H(q) \/ "dropped" \notin N
      /\ i \notin M(q) \/ "merged" \notin N
  BY <1>2, StrictItems DEF At, SpareHeartbeats, MergedAway, Deleted
<1> HIDE DEF expired, H, M
<1>10. R2 \in [Items -> Row] /\ Stays(R2, i, N)
  <2>1. Stays(R1, i, N)
    <3>1. CASE N = Deleted
      BY <1>3, <3>1, MarkStaleRow DEF R1, Stays, Deleted
    <3>2. CASE N # Deleted
      BY <1>5, <3>2 DEF Stays, TakenAway
    <3> QED
      BY <3>1, <3>2
  <2> QED
    BY <1>1, <1>4, <1>8, <2>1, RowTypes, WriteStays
<1> HIDE DEF R2
<1>11. R3(q) \in [Items -> Row] /\ Stays(R3(q), i, N)
  BY <1>1, <1>9, <1>10, RowTypes, WriteStays
<1> HIDE DEF R3
<1>12. Stays(R4(q), i, N)
  BY <1>1, <1>9, <1>11, WriteStays
<1> QED
  BY <1>7, <1>12

\* No step deletes a row, and every step keeps the row of a strict item that
\* nobody works on, except for a drop by identifier and a merge into the item
\* the serial loop works on.
LEMMA StepStays ==
  ASSUME TypeOK, Created, TypeOK', PlaceInv, [Next]_vars,
         NEW i \in Items, rows[i].status # "absent", NEW N \in {TakenAway, Deleted},
         \/ N = Deleted
         \/ /\ rows[i].status \in {"queued", "processing"}
            /\ isStrictStateItem(msg[i]) /\ rows[i].age <= TTL(msg[i]) /\ i \notin Droppable
            /\ ~\E w \in Workers : hand[w] = i /\ stage[w] = "working"
  PROVE  \/ Stays(rows', i, N)
         \/ rows'[i].status = "merged" /\ \E w \in Workers : Serial /\ stage[w] = "working"
<1> USE StartPlaces
<1>1. /\ Stays(rows, i, N) /\ {"queued", "processing", "completed"} \cap N = {}
      /\ N = Deleted => {"dropped", "deferred", "merged"} \cap N = {}
  BY DEF Stays, TakenAway, Deleted
<1>2. /\ "queued" \in Status \ {"absent"} /\ "completed" \in Status \ {"absent"}
      /\ "dropped" \in Status \ {"absent"} /\ "deferred" \in Status \ {"absent"}
      /\ "merged" \in Status \ {"absent"}
  BY DEF Status
<1>3. ASSUME NEW m \in Messages, enqueue(m) PROVE Stays(rows', i, N)
  <2>1. CASE \E j \in MergeTargets(m) : rows' = updateStatus(rows, j, "queued")
    <3>1. PICK j \in Items : rows' = updateStatus(rows, j, "queued")
      BY <2>1 DEF MergeTargets
    <3>2. rows' = SetStatus(rows, {j}, "queued")
      BY <1>2, <3>1, OneRow
    <3> QED
      BY <1>1, <1>2, <3>2, WriteStays
  <2>2. CASE \E j \in Items : \E p : reinjectExistingRow(j, p)
    BY <1>1, <2>2, ClaimStays DEF reinjectExistingRow
  <2>3. CASE insertNew(NextItem, m) /\ NextItem \in Items
    <3>1. rows' = rows \/ rows' = [rows EXCEPT ![NextItem] = Waiting(m.prio)]
      BY <2>3 DEF insertNew, save
    <3>2. Waiting(m.prio).status = "queued"
      BY DEF Waiting
    <3> QED
      BY <1>1, <3>1, <3>2 DEF Stays
  <2> QED
    BY <1>3, <2>1, <2>2, <2>3 DEF enqueue, SameRound
<1>4. ASSUME NEW w \in Workers, dequeue(w) PROVE Stays(rows', i, N)
  <2>1. PICK n \in Claimed(queue, rows) : rows' = claimItem(rows, queue[n])
    BY <1>4 DEF dequeue
  <2>2. queue[n] \in Items
    BY ElementOfSeq DEF Claimed
  <2> QED
    BY <1>1, <2>1, <2>2, ClaimStays
<1>5. ASSUME NEW w \in Workers, lockEntities(w) PROVE Stays(rows', i, N)
  <2>1. hand[w] \in Items
    BY <1>5, InHand DEF lockEntities, Busy
  <2>2. rows' = rows \/ rows' = requeueItem(rows, hand[w])
    BY <1>5 DEF lockEntities, putBack
  <2> QED
    BY <1>1, <2>1, <2>2, ClaimStays
<1>6. ASSUME NEW w \in Workers, complete(w) \/ requeue(w) \/ drop(w) \/ deferDequeued(w)
      PROVE  Stays(rows', i, N)
  <2>1. stage[w] = "working" /\ (N = Deleted \/ i # hand[w])
    BY <1>6 DEF complete, requeue, drop, deferDequeued
  <2>2. \E s \in Status \ {"absent"}, t \in {"queued", "completed"} : \E Q : EndTurn(w, s, Q, t)
    <3>1. CASE complete(w)
      BY <1>2, <3>1 DEF complete
    <3>2. CASE requeue(w)
      BY <1>2, <3>2 DEF requeue
    <3>3. CASE drop(w)
      BY <1>2, <3>3 DEF drop
    <3>4. CASE deferDequeued(w)
      BY <1>2, <3>4 DEF deferDequeued
    <3> QED
      BY <1>6, <3>1, <3>2, <3>3, <3>4
  <2> QED
    BY <1>1, <2>1, <2>2, EndTurnStays
<1>7. ASSUME NEW w \in Workers, resurfaceDue(w) PROVE Stays(rows', i, N)
  BY <1>1, <1>2, <1>7, WriteStays DEF resurfaceDue
<1>8. ASSUME NEW w \in Workers,
             preTriage(w) \/ abortDeliberation(w) \/ applyDeliberationResult(w) \/ shutdown(w)
      PROVE  Stays(rows', i, N)
  BY <1>1, <1>8, TriageStays, DeliberationStays, ShutdownStays
<1>9. ASSUME NEW w \in Workers, NEW j \in Items, merge(w, j)
      PROVE  \/ Stays(rows', i, N)
             \/ rows'[i].status = "merged" /\ \E v \in Workers : Serial /\ stage[v] = "working"
  <2>1. Serial /\ stage[w] = "working" /\ rows' = SettleAll(rows, {j}, "merged")
    BY <1>2, <1>9, OneRow DEF merge
  <2>2. CASE i = j
    <3>1. rows'[i].status = "merged"
      BY <1>2, <2>1, <2>2, SettleAllRow
    <3> QED
      BY <2>1, <3>1
  <2>3. CASE i # j
    BY <1>1, <1>2, <2>1, <2>3, WriteStays
  <2> QED
    BY <2>2, <2>3
<1>10. ASSUME NEW j \in Items, deferItem(j) \/ dropItem(j) \/ dropById(j) PROVE Stays(rows', i, N)
  <2>1. j # i \/ N = Deleted
    BY <1>10 DEF deferItem, dropItem, dropById
  <2>2. rows' = updateStatus(rows, j, "deferred") \/ rows' = settle(rows, j, "dropped")
    BY <1>10 DEF deferItem, dropItem, dropById
  <2>3. rows' = SetStatus(rows, {j}, "deferred") \/ rows' = SettleAll(rows, {j}, "dropped")
    BY <1>2, <2>2, OneRow
  <2> QED
    BY <1>1, <1>2, <2>1, <2>3, WriteStays
<1>11. ASSUME NEW j \in Items, NEW p, updatePriority(j, p) PROVE Stays(rows', i, N)
  <2> DEFINE U == updateStatus(rows, j, "queued")
  <2>1. U = SetStatus(rows, {j}, "queued") /\ U \in [Items -> Row]
    BY <1>2, OneRow, RowTypes
  <2>2. Stays(U, i, N)
    BY <1>1, <1>2, <2>1, WriteStays
  <2>3. rows' = rows \/ rows' = [U EXCEPT ![j].prio = p]
    BY <1>11 DEF updatePriority
  <2> HIDE DEF U
  <2>4. [U EXCEPT ![j].prio = p][i].status = U[i].status
    BY <2>1 DEF Row
  <2> QED
    BY <1>1, <2>2, <2>3, <2>4 DEF Stays
<1>12. ASSUME NEW t, dropStatusUpdatesByTaskId(t) PROVE Stays(rows', i, N)
  <2> DEFINE S == {j \in Items : /\ IsQueued(queue, j)
                                 /\ msg[j].type = "task_status_update"
                                 /\ ~isStrictStateItem(msg[j]) /\ msg[j].ref["task"] = t}
  <2>1. rows' = SetStatus(rows, S, "dropped") /\ (i \notin S \/ N = Deleted)
    BY <1>12 DEF dropStatusUpdatesByTaskId
  <2> HIDE DEF S
  <2> QED
    BY <1>1, <1>2, <2>1, WriteStays
<1>13. ASSUME cleanStaleProcessing PROVE Stays(rows', i, N)
  BY <1>1, <1>13, MarkStaleRow DEF cleanStaleProcessing, Stays, Deleted
<1>14. ASSUME Crash PROVE Stays(rows', i, N)
  <2>1. rows \in Tables(Len(msg)) /\ recoverStaleItems(rows)
    BY <1>14 DEF Crash, Restart, Created
  <2> QED
    BY <2>1, RecoveryStays
<1>15. ASSUME NEW w \in Workers, NEW s \in {"queued", "completed", "deferred", "dropped"},
              CrashWhileSettling(w, s)
       PROVE  Stays(rows', i, N)
  <2> DEFINE U == updateStatus(rows, hand[w], s)
  <2>1. stage[w] = "working" /\ recoverStaleItems(U) /\ (i # hand[w] \/ N = Deleted)
    BY <1>15 DEF CrashWhileSettling, Restart
  <2>2. U \in Tables(Len(msg))
    BY <2>1, InHand, MadeItems, UpdateStatusType DEF Status, Busy, Created
  <2>3. U[i].status # "absent" /\ (U[i] = rows[i] \/ N = Deleted)
    BY <2>1, StartPlaces DEF updateStatus, Row
  <2>4. U \in [Items -> Row]
    BY <2>2, AllTables, MadeItems
  <2> HIDE DEF U
  <2> QED
    BY <2>1, <2>2, <2>3, <2>4, RecoveryStays
<1>16. ASSUME NEW w \in Workers, dequeueNothing(w) \/ unlockEntities(w) \/ focus(w)
       PROVE  Stays(rows', i, N)
  BY <1>1, <1>16 DEF dequeueNothing, unlockEntities, focus
<1>17. ASSUME NEW w \in Workers, renewLease(w) PROVE Stays(rows', i, N)
  BY <1>1, <1>17 DEF renewLease, Stays, Row
<1>18. ASSUME NEW j \in Items, LeaseExpires(j) PROVE Stays(rows', i, N)
  BY <1>1, <1>18 DEF LeaseExpires, Stays, Row
<1>19. ASSUME Age PROVE Stays(rows', i, N)
  BY <1>1, <1>19 DEF Age, Stays, Row
<1>20. CASE UNCHANGED vars
  BY <1>1, <1>20 DEF vars, Stays
<1> HIDE DEF Stays
<1> QED
  BY <1>3, <1>4, <1>5, <1>6, <1>7, <1>8, <1>9, <1>10, <1>11, <1>12, <1>13, <1>14, <1>15, <1>16,
     <1>17, <1>18, <1>19, <1>20 DEF Next

-----------------------------------------------------------------------------
(***************************************************************************)
(* The order of the array.                                                 *)
(***************************************************************************)
\* The array q holds items, in the order of the priorities p.
Ordered(q, p) == q \in Seq(Items) /\ p \in [Items -> Nat] /\ Sorted(q, p)

\* Only what is not in the array gets another priority.
LEMMA OrderedReprice ==
  ASSUME NEW q, NEW p, Ordered(q, p), NEW r \in [Items -> Nat],
         \A i \in Items : IsQueued(q, i) => r[i] = p[i]
  PROVE  Ordered(q, r)
<1>1. \A k \in 1..Len(q) : q[k] \in Items /\ IsQueued(q, q[k])
  BY ElementOfSeq DEF Ordered, IsQueued
<1>2. \A k \in 1..Len(q) : r[q[k]] = p[q[k]]
  BY <1>1
<1> QED
  BY <1>2 DEF Ordered, Sorted

\* insertSorted keeps the order.
LEMMA OrderedInsert ==
  ASSUME NEW q, NEW p, Ordered(q, p), NEW i \in Items, NEW r \in insertSorted(q, i, p)
  PROVE  Ordered(r, p)
<1>1. Items \in SUBSET Nat /\ q \in Seq(Items) /\ p \in [Items -> Nat] /\ Sorted(q, p)
  BY MailboxAssumption DEF Items, Ordered
<1>2. r \in Seq(Items)
  BY <1>1, InsertType
<1>3. Sorted(r, p)
  BY <1>1, InsertEntries
<1> QED
  BY <1>1, <1>2, <1>3 DEF Ordered

\* Entries may be taken out.
LEMMA OrderedPick ==
  ASSUME NEW q, NEW p, Ordered(q, p)
  PROVE  /\ \A K \in SUBSET (1..Len(q)) : \A r \in Kept(q, K) : Ordered(r, p)
         /\ \A T : \A r \in Without(q, T) : Ordered(r, p)
         /\ \A i : \A r \in RemoveFirstOf(q, i) : Ordered(r, p)
         /\ \A R : \A n \in Claimed(q, R) : \A r \in AfterClaim(q, n) : Ordered(r, p)
         /\ \A r \in OnlyLocked(q) : Ordered(r, p)
<1>1. q \in Seq(Items) /\ p \in [Items -> Nat] /\ Sorted(q, p)
  BY DEF Ordered
<1>2. ASSUME NEW K \in SUBSET (1..Len(q)), NEW r \in Kept(q, K) PROVE Ordered(r, p)
  <2>1. r \in Seq(Items)
    BY <1>1, KeptType
  <2>2. Sorted(r, p)
    BY <1>1, KeptEntries
  <2> QED
    BY <1>1, <2>1, <2>2 DEF Ordered
<1>3. \A T : \A r \in Without(q, T) : Ordered(r, p)
  BY <1>2 DEF Without
<1>4. \A i : \A r \in RemoveFirstOf(q, i) : Ordered(r, p)
  BY <1>2 DEF RemoveFirstOf
<1>5. \A R : \A n \in Claimed(q, R) : \A r \in AfterClaim(q, n) : Ordered(r, p)
  BY <1>2 DEF AfterClaim
<1>6. \A r \in OnlyLocked(q) : Ordered(r, p)
  BY <1>2 DEF OnlyLocked
<1> QED
  BY <1>2, <1>3, <1>4, <1>5, <1>6

\* Items may be loaded.
LEMMA OrderedLoad ==
  ASSUME NEW q, NEW p, Ordered(q, p), NEW T \in SUBSET Items, NEW r \in Loaded(q, T, p)
  PROVE  Ordered(r, p)
<1>1. q \in Seq(Items) /\ p \in [Items -> Nat] /\ Sorted(q, p) /\ Items \in SUBSET Items
  BY DEF Ordered
<1>2. IsFiniteSet(T)
  BY MailboxAssumption, PositionsFinite DEF Items
<1>3. r \in Seq(Items)
  BY <1>1, <1>2, LoadedType
<1>4. Sorted(r, p)
  BY <1>1, <1>2, LoadedEntries
<1> QED
  BY <1>1, <1>3, <1>4 DEF Ordered

\* TakeHead takes entries out.
LEMMA OrderedTakeHead ==
  ASSUME NEW w, NEW q, NEW R, NEW p, Ordered(q, p), TakeHead(w, q, R)
  PROVE  Ordered(queue', p)
BY OrderedPick DEF TakeHead

\* An old row whose item is queued again: at its place, if not there already.
LEMMA OrderedReinject ==
  ASSUME TypeOK, TypeOK', Ordered(queue, prio), NEW i \in Items, NEW p, reinjectExistingRow(i, p)
  PROVE  Ordered(queue', prio')
<1>1. CASE UNCHANGED <<prio, queue>>
  BY <1>1
<1>2. CASE ~IsQueued(queue, i) /\ prio' = [prio EXCEPT ![i] = p]
           /\ queue' \in insertSorted(queue, i, prio')
  <2> DEFINE P == prio'
             s == queue'
  <2>1. P \in [Items -> Nat] /\ \A j \in Items : IsQueued(queue, j) => P[j] = prio[j]
    BY <1>2 DEF TypeOK
  <2>2. s \in insertSorted(queue, i, P)
    BY <1>2
  <2> HIDE DEF P, s
  <2>3. Ordered(s, P)
    BY <2>1, <2>2, OrderedReprice, OrderedInsert
  <2> QED
    BY <2>3 DEF P, s
<1> QED
  BY <1>1, <1>2 DEF reinjectExistingRow

\* Delivery.
LEMMA EnqueueOrdered ==
  ASSUME TypeOK, TypeOK', PlaceInv, Ordered(queue, prio), NEW m \in Messages, enqueue(m)
  PROVE  Ordered(queue', prio')
<1>1. CASE UNCHANGED <<prio, queue>>
  BY <1>1
<1>2. CASE \E i \in SameRound(m) : reinjectExistingRow(i, m.prio)
  BY <1>2, OrderedReinject DEF SameRound
<1>3. CASE NextItem \in Items /\ insertNew(NextItem, m)
  <2> DEFINE n == NextItem
             P == prio'
             s == queue'
  <2>1. \A j \in Items : IsQueued(queue, j) => j # n
    BY StartPlaces, MadeItems DEF Made, NextItem
  <2>2. P \in [Items -> Nat] /\ \A j \in Items : IsQueued(queue, j) => P[j] = prio[j]
    BY <1>3, <2>1 DEF insertNew, TypeOK
  <2>3. s \in insertSorted(queue, n, P) /\ n \in Items
    BY <1>3 DEF insertNew
  <2> HIDE DEF n, P, s
  <2>4. Ordered(s, P)
    BY <2>2, <2>3, OrderedReprice, OrderedInsert
  <2> QED
    BY <2>4 DEF P, s
<1> QED
  BY <1>1, <1>2, <1>3 DEF enqueue

\* The end of a turn.
LEMMA EndTurnOrdered ==
  ASSUME TypeOK, Ordered(queue, prio), NEW w, NEW s, NEW Q, \A q \in Q : Ordered(q, prio),
         NEW t, EndTurn(w, s, Q, t), UNCHANGED prio
  PROVE  Ordered(queue', prio')
<1>1. PICK q \in Q : queue' \in IF t = "completed" THEN Without(q, batch)
                               ELSE Loaded(q, batch, prio)
  BY DEF EndTurn
<1> DEFINE r == queue'
           P == prio
           B == batch
<1>2. Ordered(q, P) /\ B \in SUBSET Items /\ (r \in Without(q, B) \/ r \in Loaded(q, B, P))
  BY <1>1 DEF TypeOK
<1> HIDE DEF r, P, B
<1>3. Ordered(r, P)
  BY <1>2, OrderedPick, OrderedLoad
<1> QED
  BY <1>3 DEF r, P

\* Choosing another item puts one back and takes others out.
LEMMA OrderedChosen ==
  ASSUME NEW q, NEW R, NEW h \in Items, NEW j, NEW t \in Chosen(q, R, h, j), Ordered(q, prio)
  PROVE  Ordered(t.queue, prio)
<1> DEFINE P == prio
<1>1. \A r \in insertSorted(q, h, P) : Ordered(r, P)
  <2> HIDE DEF P
  <2>1. Ordered(q, P)
    BY DEF P
  <2> QED
    BY <2>1, OrderedInsert
<1>2. CASE j = h
  BY <1>2 DEF Chosen
<1>3. CASE j # h
  <2>1. PICK r \in insertSorted(q, h, P) :
          \/ t.queue \in RemoveFirstOf(r, j)
          \/ \E s \in RemoveFirstOf(r, j) : t.queue \in RemoveFirstOf(s, h)
    BY <1>3 DEF Chosen
  <2> QED
    BY <1>1, <2>1, OrderedPick
<1> QED
  BY <1>2, <1>3

\* The serial loop before it works on an item.
LEMMA TriageOrdered ==
  ASSUME TypeOK, Created, PlaceInv, Ordered(queue, prio), NEW w \in Workers,
         preTriage(w) \/ abortDeliberation(w) \/ applyDeliberationResult(w)
  PROVE  Ordered(queue', prio')
<1> DEFINE h == hand[w]
           P == prio
<1>1. h \in Items /\ UNCHANGED prio
  BY InHand DEF preTriage, abortDeliberation, applyDeliberationResult, Busy
<1>2. \A q \in insertSorted(queue, h, P) : Ordered(q, P)
  BY <1>1, OrderedInsert
<1>3. CASE preTriage(w)
  <2> DEFINE R1 == requeueItem(rows, h)
             Purged(q) == purgeStaleItems(q, R1)
             R3(q, r) == SetStatus(SetStatus(R1, Purged(q), "dropped"),
                                   At(r, consolidateByEntity(r)), "merged")
  <2>1. PICK q1 \in insertSorted(queue, h, P) :
          \E q2 \in Without(q1, Purged(q1)) :
          \E q3 \in Kept(q2, (1..Len(q2)) \ consolidateByEntity(q2)) :
            TakeHead(w, q3, R3(q1, q2))
    BY <1>3 DEF preTriage
  <2>2. PICK q2 \in Without(q1, Purged(q1)) :
          \E q3 \in Kept(q2, (1..Len(q2)) \ consolidateByEntity(q2)) :
            TakeHead(w, q3, R3(q1, q2))
    BY <2>1
  <2>3. PICK q3 \in Kept(q2, (1..Len(q2)) \ consolidateByEntity(q2)) :
            TakeHead(w, q3, R3(q1, q2))
    BY <2>2
  <2> HIDE DEF R1, Purged, R3, P, h
  <2>4. Ordered(q2, P)
    BY <1>2, OrderedPick
  <2>5. Ordered(q3, P)
    <3>1. (1..Len(q2)) \ consolidateByEntity(q2) \in SUBSET (1..Len(q2))
      OBVIOUS
    <3> QED
      BY <2>4, <3>1, OrderedPick
  <2>6. Ordered(queue', P)
    BY <2>3, <2>5, OrderedTakeHead
  <2> QED
    BY <1>1, <2>6 DEF P
<1>4. CASE abortDeliberation(w)
  <2>1. PICK q \in insertSorted(queue, h, P) : TakeHead(w, q, requeueItem(rows, h))
    BY <1>4 DEF abortDeliberation
  <2> HIDE DEF P
  <2>2. Ordered(queue', P)
    BY <1>2, <2>1, OrderedTakeHead
  <2> QED
    BY <1>1, <2>2 DEF P
<1>5. CASE applyDeliberationResult(w)
  <2>1. PICK j \in 1..Len(msg) : \E verdict \in [Listed(w) \ {j} -> Verdicts] : Decide(w, j, verdict)
    BY <1>5 DEF applyDeliberationResult
  <2>2. PICK verdict \in [Listed(w) \ {j} -> Verdicts] : Decide(w, j, verdict)
    BY <2>1
  <2> DEFINE Said(v) == {k \in DOMAIN verdict :
                           verdict[k] = v /\ (k = h \/ ~isProtected(msg[k]))}
             C == Said("complete") \ {h}
             X == SettleAll(rows, C, "completed")
             Gone(t) == Said("batch") \union {k \in Said("defer") : IsQueued(t.queue, k)}
                          \union Said("drop")
  <2>3. PICK q \in Without(queue, C) : \E t \in Chosen(q, X, h, j) : queue' \in Without(t.queue, Gone(t))
    BY <2>2 DEF Decide
  <2>4. PICK t \in Chosen(q, X, h, j) : queue' \in Without(t.queue, Gone(t))
    BY <2>3
  <2> HIDE DEF C, X, Gone, h
  <2>5. Ordered(q, prio)
    BY OrderedPick
  <2>6. Ordered(t.queue, prio)
    BY <1>1, <2>5, OrderedChosen
  <2>7. Ordered(queue', prio)
    BY <2>4, <2>6, OrderedPick
  <2> QED
    BY <1>1, <2>7
<1> QED
  BY <1>3, <1>4, <1>5

\* shutdown.
LEMMA ShutdownOrdered ==
  ASSUME TypeOK, TypeOK', Created, PlaceInv, Ordered(queue, prio), NEW w \in Workers, shutdown(w)
  PROVE  Ordered(queue', prio')
<1> DEFINE h == hand[w]
           P == prio
<1>1. h \in Items
  BY InHand DEF shutdown, Busy
<1>2. \/ UNCHANGED <<prio, queue>>
      \/ \E i \in Items : \E p : reinjectExistingRow(i, p)
      \/ queue' \in insertSorted(queue, h, P) /\ UNCHANGED prio
  <2>1. CASE reEnqueueOnShutdown(h)
    <3>1. CASE rows[h].status \in Requeueable
      BY <1>1, <2>1, <3>1 DEF reEnqueueOnShutdown, Requeueable
    <3>2. CASE rows[h].status \notin Requeueable
      BY <2>1, <3>2 DEF reEnqueueOnShutdown, Requeueable, SameRound
    <3> QED
      BY <3>1, <3>2
  <2>2. CASE UNCHANGED <<prio, rows, queue>>
    BY <2>2
  <2> QED
    BY <2>1, <2>2 DEF shutdown
<1> HIDE DEF h, P
<1>3. \A q \in insertSorted(queue, h, P) : Ordered(q, P)
  <2>1. Ordered(queue, P)
    BY DEF P
  <2> QED
    BY <1>1, <2>1, OrderedInsert
<1>4. CASE queue' \in insertSorted(queue, h, P) /\ UNCHANGED prio
  <2>1. Ordered(queue', P)
    BY <1>3, <1>4
  <2> QED
    BY <1>4, <2>1 DEF P
<1> QED
  BY <1>2, <1>4, OrderedReinject

\* updatePriority takes the only entry out before it puts it back.
LEMMA PriorityOrdered ==
  ASSUME TypeOK, TypeOK', Ordered(queue, prio), NEW i \in Items, AtMostOnce(queue, i),
         NEW p, updatePriority(i, p)
  PROVE  Ordered(queue', prio')
<1> DEFINE P == prio'
           s == queue'
<1>1. PICK q \in RemoveFirstOf(queue, i) : s \in insertSorted(q, i, P)
  BY DEF updatePriority
<1>2. P \in [Items -> Nat] /\ \A j \in Items : j # i => P[j] = prio[j]
  BY DEF updatePriority, TypeOK
<1>3. ~IsQueued(q, i)
  <2>1. queue \in Seq(Items)
    BY DEF Ordered
  <2> QED
    BY <1>1, <2>1, RemoveFirstEntries
<1>4. Ordered(q, prio)
  BY OrderedPick
<1> HIDE DEF P, s
<1>5. Ordered(q, P)
  BY <1>2, <1>3, <1>4, OrderedReprice
<1>6. Ordered(s, P)
  BY <1>1, <1>5, OrderedInsert
<1> QED
  BY <1>6 DEF P, s

\* The recovery and resurfacing load items with the priorities of their rows.
LEMMA LoadOrdered ==
  ASSUME TypeOK, TypeOK', Ordered(queue, prio),
         (\E w \in Workers : resurfaceDue(w)) \/ (\E R : recoverStaleItems(R))
  PROVE  Ordered(queue', prio')
<1> DEFINE P == prio'
           r == queue'
<1>1. P \in [Items -> Nat]
  BY DEF TypeOK
<1>2. CASE \E w \in Workers : resurfaceDue(w)
  <2>1. PICK S \in SUBSET {i \in Items : rows[i].status = "deferred" /\ ~IsQueued(queue, i)} :
          P = [i \in Items |-> IF i \in S THEN rows[i].prio ELSE prio[i]] /\ r \in Loaded(queue, S, P)
    BY <1>2 DEF resurfaceDue
  <2>2. \A i \in Items : IsQueued(queue, i) => P[i] = prio[i]
    BY <2>1
  <2>3. r \in Loaded(queue, S, P) /\ S \in SUBSET Items
    BY <2>1
  <2> HIDE DEF P, r
  <2>4. Ordered(queue, P)
    BY <1>1, <2>2, OrderedReprice
  <2>5. Ordered(r, P)
    BY <2>3, <2>4, OrderedLoad
  <2> QED
    BY <2>5 DEF P, r
<1>3. CASE \E R : recoverStaleItems(R)
  <2>1. \E S \in SUBSET Items : \E q \in Loaded(<<>>, S, P) :
          \E K \in SUBSET (1..Len(q)) : r \in Kept(q, K)
    BY <1>3 DEF recoverStaleItems
  <2>2. PICK S \in SUBSET Items : \E q \in Loaded(<<>>, S, P) :
          \E K \in SUBSET (1..Len(q)) : r \in Kept(q, K)
    BY <2>1
  <2>3. PICK q \in Loaded(<<>>, S, P) : \E K \in SUBSET (1..Len(q)) : r \in Kept(q, K)
    BY <2>2
  <2> HIDE DEF P, r
  <2>4. Ordered(<<>>, P)
    BY <1>1, EmptySeq DEF Ordered, Sorted
  <2>5. Ordered(q, P)
    BY <2>4, OrderedLoad
  <2>6. Ordered(r, P)
    BY <2>3, <2>5, OrderedPick
  <2> QED
    BY <2>6 DEF P, r
<1> QED
  BY <1>2, <1>3

\* Every step keeps the array in order, when no item is in it twice.
LEMMA StepOrdered ==
  ASSUME TypeOK, TypeOK', Created, PlaceInv, \A i \in Made : Sure(i), Ordered(queue, prio), [Next]_vars
  PROVE  Ordered(queue', prio')
<1>1. CASE UNCHANGED <<prio, queue>>
  BY <1>1
<1>2. ASSUME UNCHANGED prio,
             \/ \E i : queue' \in RemoveFirstOf(queue, i)
             \/ \E T : queue' \in Without(queue, T)
             \/ \E R : \E n \in Claimed(queue, R) : queue' \in AfterClaim(queue, n)
             \/ queue' \in OnlyLocked(queue)
             \/ \E w \in Workers : stage[w] # "idle" /\ queue' \in insertSorted(queue, hand[w], prio)
      PROVE  Ordered(queue', prio')
  <2>1. ASSUME NEW w \in Workers, stage[w] # "idle", queue' \in insertSorted(queue, hand[w], prio)
        PROVE  Ordered(queue', prio')
    <3> DEFINE P == prio
               r == queue'
    <3>1. hand[w] \in Items
      BY <2>1, MadeItems DEF Created
    <3>2. r \in insertSorted(queue, hand[w], P) /\ Ordered(queue, P)
      BY <2>1
    <3> HIDE DEF P, r
    <3>3. Ordered(r, P)
      BY <3>1, <3>2, OrderedInsert
    <3> QED
      BY <1>2, <3>3 DEF P, r
  <2>2. CASE ~\E w \in Workers : stage[w] # "idle" /\ queue' \in insertSorted(queue, hand[w], prio)
    <3>1. Ordered(queue', prio)
      BY <1>2, <2>2, OrderedPick
    <3> QED
      BY <1>2, <3>1
  <2> QED
    BY <2>1, <2>2
<1>3. ASSUME NEW m \in Messages, enqueue(m) PROVE Ordered(queue', prio')
  BY <1>3, EnqueueOrdered
<1>4. ASSUME NEW w \in Workers,
             dequeue(w) \/ dequeueNothing(w) \/ lockEntities(w) \/ unlockEntities(w) \/ focus(w) \/ renewLease(w)
      PROVE  Ordered(queue', prio')
  <2>1. CASE dequeue(w) \/ dequeueNothing(w)
    BY <1>2, <2>1 DEF dequeue, dequeueNothing
  <2>2. CASE lockEntities(w)
    BY <1>1, <1>2, <2>2 DEF lockEntities, putBack
  <2>3. CASE unlockEntities(w) \/ focus(w) \/ renewLease(w)
    BY <1>1, <2>3 DEF unlockEntities, focus, renewLease, Memory
  <2> QED
    BY <1>4, <2>1, <2>2, <2>3
<1>5. ASSUME NEW w \in Workers, complete(w) \/ requeue(w) \/ drop(w) \/ deferDequeued(w)
      PROVE  Ordered(queue', prio')
  <2>1. hand[w] \in Items /\ UNCHANGED prio
    BY <1>5, MadeItems DEF Created, complete, requeue, drop, deferDequeued
  <2>2. \E s, t, Q : (\A q \in Q : Ordered(q, prio)) /\ EndTurn(w, s, Q, t)
    <3>1. \A q \in RemoveFirstOf(queue, hand[w]) : Ordered(q, prio)
      BY OrderedPick
    <3>2. \A q \in insertSorted(queue, hand[w], prio) : Ordered(q, prio)
      <4> DEFINE P == prio
      <4>1. Ordered(queue, P)
        OBVIOUS
      <4>2. \A q \in insertSorted(queue, hand[w], P) : Ordered(q, P)
        <5> HIDE DEF P
        <5> QED
          BY <2>1, <4>1, OrderedInsert
      <4> QED
        BY <4>2
    <3>3. \A q \in {queue} : Ordered(q, prio)
      OBVIOUS
    <3>4. CASE complete(w)
      BY <3>1, <3>4 DEF complete
    <3>5. CASE requeue(w)
      BY <3>2, <3>5 DEF requeue
    <3>6. CASE drop(w)
      BY <3>1, <3>6 DEF drop
    <3>7. CASE deferDequeued(w)
      BY <3>3, <3>7 DEF deferDequeued
    <3> QED
      BY <1>5, <3>4, <3>5, <3>6, <3>7
  <2> QED
    BY <2>1, <2>2, EndTurnOrdered
<1>6. ASSUME NEW w \in Workers, preTriage(w) \/ abortDeliberation(w) \/ applyDeliberationResult(w) \/ shutdown(w)
      PROVE  Ordered(queue', prio')
  BY <1>6, TriageOrdered, ShutdownOrdered
<1>7. ASSUME NEW i \in Items, NEW w \in Workers, merge(w, i) PROVE Ordered(queue', prio')
  BY <1>2, <1>7 DEF merge
<1>8. ASSUME NEW i \in Items, deferItem(i) \/ dropItem(i) \/ dropById(i) \/ LeaseExpires(i)
      PROVE  Ordered(queue', prio')
  BY <1>1, <1>2, <1>8 DEF deferItem, dropItem, dropById, LeaseExpires, Memory
<1>9. ASSUME NEW i \in Items, NEW p, updatePriority(i, p) PROVE Ordered(queue', prio')
  <2>1. i \in Made
    BY <1>9, StartPlaces DEF updatePriority
  <2>2. AtMostOnce(queue, i)
    BY <2>1, StartPlaces DEF OnePlace
  <2> QED
    BY <1>9, <2>2, PriorityOrdered
<1>10. ASSUME NEW t, dropStatusUpdatesByTaskId(t) PROVE Ordered(queue', prio')
  <2>1. UNCHANGED prio /\ \E T : queue' \in Without(queue, T)
    BY <1>10 DEF dropStatusUpdatesByTaskId, Memory
  <2> QED
    BY <1>2, <2>1
<1>11. ASSUME cleanStaleProcessing \/ Age PROVE Ordered(queue', prio')
  BY <1>1, <1>11 DEF cleanStaleProcessing, Age, Memory
<1>12. ASSUME Crash \/ (\E w \in Workers : \E s : CrashWhileSettling(w, s)) \/ (\E w \in Workers : resurfaceDue(w))
       PROVE  Ordered(queue', prio')
  BY <1>12, LoadOrdered DEF Crash, CrashWhileSettling, Restart
<1>13. CASE UNCHANGED vars
  BY <1>1, <1>13 DEF vars
<1> QED
  BY <1>3, <1>4, <1>5, <1>6, <1>7, <1>8, <1>9, <1>10, <1>11, <1>12, <1>13 DEF Next

-----------------------------------------------------------------------------
(***************************************************************************)
(* Items that are over: completed, in no array and in no hand.             *)
(***************************************************************************)
\* Item i is not in the array q and completed in the rows R.
Over(q, R, i) ==
  q \in Seq(Items) /\ R \in [Items -> Row] /\ ~IsQueued(q, i) /\ R[i].status = "completed"

\* Another item is inserted.
LEMMA OverInsert ==
  ASSUME NEW q, NEW R, NEW i, Over(q, R, i), NEW h \in Items, h # i, NEW p
  PROVE  \A r \in insertSorted(q, h, p) : Over(r, R, i)
<1> SUFFICES ASSUME NEW r \in insertSorted(q, h, p) PROVE Over(r, R, i)
  OBVIOUS
<1>1. Items \in SUBSET Nat /\ q \in Seq(Items)
  BY MailboxAssumption DEF Items, Over
<1>2. r \in Seq(Items)
  BY <1>1, InsertType
<1>3. ~IsQueued(r, i)
  BY <1>1, InsertEntries DEF Over
<1> QED
  BY <1>2, <1>3 DEF Over

\* Entries are taken out.
LEMMA OverPick ==
  ASSUME NEW q, NEW R, NEW i, Over(q, R, i)
  PROVE  /\ \A K \in SUBSET (1..Len(q)) : \A r \in Kept(q, K) : Over(r, R, i)
         /\ \A T : \A r \in Without(q, T) : Over(r, R, i)
         /\ \A j : \A r \in RemoveFirstOf(q, j) : Over(r, R, i)
         /\ \A X : \A n \in Claimed(q, X) : \A r \in AfterClaim(q, n) : Over(r, R, i)
         /\ \A r \in OnlyLocked(q) : Over(r, R, i)
<1>1. q \in Seq(Items) /\ ~IsQueued(q, i)
  BY DEF Over
<1>2. ASSUME NEW K \in SUBSET (1..Len(q)), NEW r \in Kept(q, K) PROVE Over(r, R, i)
  <2>1. r \in Seq(Items)
    BY <1>1, KeptType
  <2>2. IsQueued(r, i) <=> \E k \in K : q[k] = i
    BY <1>1, KeptEntries
  <2>3. ~IsQueued(r, i)
    BY <1>1, <2>2 DEF IsQueued
  <2> QED
    BY <2>1, <2>3 DEF Over
<1>3. \A T : \A r \in Without(q, T) : Over(r, R, i)
  BY <1>2 DEF Without
<1>4. \A j : \A r \in RemoveFirstOf(q, j) : Over(r, R, i)
  BY <1>2 DEF RemoveFirstOf
<1>5. \A X : \A n \in Claimed(q, X) : \A r \in AfterClaim(q, n) : Over(r, R, i)
  BY <1>2 DEF AfterClaim
<1>6. \A r \in OnlyLocked(q) : Over(r, R, i)
  BY <1>2 DEF OnlyLocked
<1> QED
  BY <1>2, <1>3, <1>4, <1>5, <1>6

\* Other items are loaded.
LEMMA OverLoad ==
  ASSUME NEW q, NEW R, NEW i, Over(q, R, i), NEW T \in SUBSET Items, i \notin T, NEW p
  PROVE  \A r \in Loaded(q, T, p) : Over(r, R, i)
<1> SUFFICES ASSUME NEW r \in Loaded(q, T, p) PROVE Over(r, R, i)
  OBVIOUS
<1>1. q \in Seq(Items) /\ Items \in SUBSET Items
  BY DEF Over
<1>2. IsFiniteSet(T)
  BY MailboxAssumption, PositionsFinite DEF Items
<1>3. r \in Seq(Items)
  BY <1>1, <1>2, LoadedType
<1>4. ~IsQueued(r, i)
  BY <1>1, <1>2, LoadedEntries DEF Over
<1> QED
  BY <1>3, <1>4 DEF Over

\* The status of other rows is written, or it is completed.
LEMMA OverWrite ==
  ASSUME NEW q, NEW R, NEW i \in Items, Over(q, R, i), NEW S, NEW t \in Status \ {"absent"},
         i \notin S \/ t = "completed"
  PROVE  Over(q, SetStatus(R, S, t), i) /\ Over(q, SettleAll(R, S, t), i)
<1>1. R \in [Items -> Row] /\ R[i].status = "completed"
  BY DEF Over
<1>2. SetStatus(R, S, t) \in [Items -> Row] /\ SettleAll(R, S, t) \in [Items -> Row]
  BY <1>1, RowTypes
<1>3. SetStatus(R, S, t)[i].status = "completed"
  BY <1>1, SetStatusRow
<1>4. SettleAll(R, S, t)[i].status = "completed"
  BY <1>1, SettleAllRow
<1> QED
  BY <1>2, <1>3, <1>4 DEF Over

\* A completed row is not queued again, and another one is claimed.
LEMMA OverClaim ==
  ASSUME NEW q, NEW R, NEW i \in Items, Over(q, R, i), NEW h \in Items
  PROVE  Over(q, requeueItem(R, h), i) /\ (h # i => Over(q, claimItem(R, h), i))
<1>1. R \in [Items -> Row] /\ R[i].status = "completed"
  BY DEF Over
<1>2. requeueItem(R, h) \in [Items -> Row] /\ claimItem(R, h) \in [Items -> Row]
  BY <1>1, ClaimRowTypes
<1>3. requeueItem(R, h)[i].status = "completed"
  BY <1>1, RequeueRow DEF Requeueable
<1>4. h # i => claimItem(R, h)[i].status = "completed"
  BY <1>1, ClaimRow
<1> QED
  BY <1>2, <1>3, <1>4 DEF Over

\* TakeHead does not come upon an item that is over.
LEMMA OverTakeHead ==
  ASSUME NEW w, NEW q, NEW R, NEW i \in Items, Over(q, R, i), TakeHead(w, q, R)
  PROVE  /\ Over(queue', rows', i)
         /\ hand' = hand \/ \E h \in Items : h # i /\ hand' = [hand EXCEPT ![w] = h]
<1>1. q \in Seq(Items) /\ ~IsQueued(q, i)
  BY DEF Over
<1>2. CASE Claimed(q, R) = {}
  BY <1>2, OverPick DEF TakeHead
<1>3. CASE Claimed(q, R) # {}
  <2>1. PICK n \in Claimed(q, R) : /\ queue' \in AfterClaim(q, n)
                                   /\ rows' = claimItem(R, q[n])
                                   /\ hand' = [hand EXCEPT ![w] = q[n]]
    BY <1>3 DEF TakeHead
  <2>2. q[n] \in Items /\ q[n] # i
    BY <1>1, ElementOfSeq DEF Claimed, IsQueued
  <2>3. Over(queue', R, i)
    BY <2>1, OverPick
  <2>4. Over(queue', claimItem(R, q[n]), i)
    BY <2>2, <2>3, OverClaim
  <2> QED
    BY <2>1, <2>2, <2>4
<1> QED
  BY <1>2, <1>3

\* Nor is it chosen.
LEMMA OverChosen ==
  ASSUME NEW q, NEW R, NEW i \in Items, Over(q, R, i), NEW h \in Items, h # i, NEW j \in Items
  PROVE  \A t \in Chosen(q, R, h, j) : Over(t.queue, t.rows, i) /\ t.item # i
<1> SUFFICES ASSUME NEW t \in Chosen(q, R, h, j)
             PROVE  Over(t.queue, t.rows, i) /\ t.item # i
  OBVIOUS
<1> DEFINE R1 == requeueItem(R, h)
<1>1. CASE j = h
  BY <1>1 DEF Chosen
<1>2. CASE j # h
  <2>1. PICK r \in insertSorted(q, h, prio) :
          \/ /\ Takes(r, R1, j) /\ t.rows = claimItem(R1, j) /\ t.item = j
             /\ t.queue \in RemoveFirstOf(r, j)
          \/ /\ t.rows \in {claimItem(R1, h), R1} /\ t.item = h
             /\ \E s \in RemoveFirstOf(r, j) : t.queue \in RemoveFirstOf(s, h)
    BY <1>2 DEF Chosen
  <2>2. Over(r, R1, i)
    BY OverInsert, OverClaim
  <2> HIDE DEF R1
  <2>3. CASE /\ Takes(r, R1, j) /\ t.rows = claimItem(R1, j) /\ t.item = j
             /\ t.queue \in RemoveFirstOf(r, j)
    <3>1. j # i
      BY <2>2, <2>3 DEF Over, Takes
    <3>2. Over(t.queue, R1, i)
      BY <2>2, <2>3, OverPick
    <3>3. Over(t.queue, claimItem(R1, j), i)
      BY <3>1, <3>2, OverClaim
    <3> QED
      BY <2>3, <3>1, <3>3
  <2>4. CASE /\ t.rows \in {claimItem(R1, h), R1} /\ t.item = h
             /\ \E s \in RemoveFirstOf(r, j) : t.queue \in RemoveFirstOf(s, h)
    <3>1. PICK s \in RemoveFirstOf(r, j) : t.queue \in RemoveFirstOf(s, h)
      BY <2>4
    <3>2. Over(s, R1, i)
      BY <2>2, OverPick
    <3>3. Over(t.queue, R1, i)
      BY <3>1, <3>2, OverPick
    <3>4. Over(t.queue, claimItem(R1, h), i)
      BY <3>3, OverClaim
    <3> QED
      BY <2>4, <3>3, <3>4
  <2> QED
    BY <2>1, <2>3, <2>4
<1> QED
  BY <1>1, <1>2

\* Another row is queued again.
LEMMA OverReinject ==
  ASSUME TypeOK', NEW i \in Items, Over(queue, rows, i), NEW h \in Items, h # i, NEW p,
         reinjectExistingRow(h, p)
  PROVE  Over(queue', rows', i)
<1>1. Over(queue, rows', i)
  BY OverClaim DEF reinjectExistingRow
<1>2. CASE queue' = queue
  BY <1>1, <1>2
<1>3. CASE queue' \in insertSorted(queue, h, prio')
  <2> DEFINE P == prio'
             X == rows'
             s == queue'
  <2>1. s \in insertSorted(queue, h, P) /\ Over(queue, X, i)
    BY <1>1, <1>3
  <2> HIDE DEF P, X, s
  <2>2. Over(s, X, i)
    BY <2>1, OverInsert
  <2> QED
    BY <2>2 DEF s, X
<1> QED
  BY <1>2, <1>3 DEF reinjectExistingRow

\* A worker that moves, and does not take the item, leaves it unheld.
LEMMA MoveHeld ==
  ASSUME TypeOK, NEW i, i \notin HeldItems, i \notin batch', NEW w \in Workers,
         \A v \in Workers \ {w} : hand'[v] = hand[v] /\ stage'[v] = stage[v],
         stage'[w] \in {"claimed", "deliberating", "working"} => hand'[w] # i
  PROVE  i \notin HeldItems'
<1>1. \A v \in Workers : Busy(v)' => hand'[v] # i
  BY DEF HeldItems, Busy
<1> QED
  BY <1>1 DEF HeldItems

\* Delivery.
LEMMA EnqueueOver ==
  ASSUME TypeOK, TypeOK', Created, PlaceInv, NEW i \in Made, Over(queue, rows, i),
         NEW m \in Messages, enqueue(m)
  PROVE  Over(queue', rows', i)
<1>1. i \in Items /\ rows[i].status = "completed" /\ "queued" \in Status \ {"absent"}
  BY StartPlaces DEF Over, Status
<1>2. CASE \E j \in MergeTargets(m) : rows' = updateStatus(rows, j, "queued") /\ queue' = queue
  <2>1. PICK j \in MergeTargets(m) : rows' = updateStatus(rows, j, "queued") /\ queue' = queue
    BY <1>2
  <2>2. j \in Items /\ i \notin {j} /\ rows \in [Items -> Row]
    BY <2>1 DEF MergeTargets, Over
  <2>3. rows' = SetStatus(rows, {j}, "queued")
    BY <1>1, <2>1, <2>2, OneRow
  <2>4. Over(queue, SetStatus(rows, {j}, "queued"), i)
    BY <1>1, <2>2, OverWrite
  <2> QED
    BY <2>1, <2>3, <2>4
<1>3. CASE \E j \in SameRound(m) : resolveReinjectDecision(rows[j].status) = "reuse"
                                   /\ reinjectExistingRow(j, m.prio)
  <2>1. PICK j \in Items : rows[j].status = "dropped" /\ reinjectExistingRow(j, m.prio)
    BY <1>3 DEF SameRound, resolveReinjectDecision
  <2>2. j # i
    BY <1>1, <2>1
  <2> QED
    BY <1>1, <2>1, <2>2, OverReinject
<1>4. CASE NextItem \in Items /\ insertNew(NextItem, m)
  <2> DEFINE n == NextItem
             P == prio'
             X == rows'
             s == queue'
  <2>1. n # i /\ n \in Items
    BY <1>4, MadeItems DEF NextItem, Made
  <2>2. X \in [Items -> Row] /\ X[i] = rows[i]
    BY <1>1, <1>4, <2>1 DEF TypeOK, insertNew, save
  <2>3. Over(queue, X, i) /\ s \in insertSorted(queue, n, P)
    BY <1>4, <2>2 DEF Over, insertNew
  <2> HIDE DEF n, P, X, s
  <2>4. Over(s, X, i)
    BY <2>1, <2>3, OverInsert
  <2> QED
    BY <2>4 DEF s, X
<1> QED
  BY <1>2, <1>3, <1>4 DEF enqueue

\* The end of the turn of worker w, for every item that is over when the turn
\* has settled the item in hand: the item itself may be one.
LEMMA EndTurnOver ==
  ASSUME TypeOK, PlaceInv, NEW i \in Items, NEW w \in Workers, NEW s, NEW t \in {"queued", "completed"},
         NEW Q, \A q \in Q : Over(q, settle(rows, hand[w], s), i), i \notin batch,
         EndTurn(w, s, Q, t)
  PROVE  Over(queue', rows', i)
<1> DEFINE R1 == settle(rows, hand[w], s)
           B == batch
           P == prio
           r == queue'
<1>1. PICK q \in Q : r \in IF t = "completed" THEN Without(q, B) ELSE Loaded(q, B, P)
  BY DEF EndTurn
<1>2. rows' = SettleAll(R1, B, t) /\ t \in Status \ {"absent"} /\ B \in SUBSET Items /\ i \notin B
  BY DEF EndTurn, Status, TypeOK
<1>3. Over(q, R1, i)
  BY <1>1
<1> HIDE DEF R1, B, P, r
<1>4. Over(r, R1, i)
  BY <1>1, <1>2, <1>3, OverPick, OverLoad
<1>5. Over(r, SettleAll(R1, B, t), i)
  BY <1>2, <1>4, OverWrite
<1> QED
  BY <1>2, <1>5 DEF r

\* The worker that ends its turn holds nothing; nor is there a batch.
LEMMA LeaveHeld ==
  ASSUME TypeOK, Created, PlaceInv, NEW w \in Workers, stage[w] = "working",
         NEW s, NEW t, NEW Q, EndTurn(w, s, Q, t), NEW i,
         i \notin HeldItems \/ (i = hand[w] /\ Sure(i))
  PROVE  i \notin HeldItems'
<1>1. /\ batch' = {} /\ stage'[w] \notin {"claimed", "deliberating", "working"}
      /\ \A v \in Workers \ {w} : hand'[v] = hand[v] /\ stage'[v] = stage[v]
  BY DEF EndTurn, Leave, TypeOK
<1>2. CASE i \notin HeldItems
  BY <1>1, <1>2, MoveHeld
<1>3. CASE i = hand[w] /\ Sure(i)
  <2>1. \A v \in Workers \ {w} : Busy(v) => hand[v] # i
    BY <1>3, InHand DEF Others, Busy
  <2>2. \A v \in Workers : Busy(v)' => hand'[v] # i
    BY <1>1, <2>1 DEF Busy
  <2> QED
    BY <1>1, <2>2 DEF HeldItems
<1> QED
  BY <1>2, <1>3

\* A turn that ends, while another item is over.
LEMMA SettleOver ==
  ASSUME TypeOK, Created, PlaceInv, NEW i \in Items, Over(queue, rows, i), i \notin HeldItems,
         NEW w \in Workers, complete(w) \/ requeue(w) \/ drop(w) \/ deferDequeued(w)
  PROVE  Over(queue', rows', i) /\ i \notin HeldItems'
<1> DEFINE h == hand[w]
<1>1. stage[w] = "working" /\ h \in Items /\ h # i /\ i \notin batch
  <2>1. stage[w] = "working"
    BY DEF complete, requeue, drop, deferDequeued
  <2> QED
    BY <2>1, InHand DEF Busy, HeldItems
<1>2. ASSUME NEW s \in Status \ {"absent"} PROVE Over(queue, settle(rows, h, s), i)
  <2>1. settle(rows, h, s) = SettleAll(rows, {h}, s) /\ i \notin {h}
    BY <1>1, OneRow DEF Over
  <2>2. Over(queue, SettleAll(rows, {h}, s), i)
    BY <1>2, <2>1, OverWrite
  <2> QED
    BY <2>1, <2>2
<1>3. ASSUME NEW R, Over(queue, R, i)
      PROVE  /\ \A q \in RemoveFirstOf(queue, h) : Over(q, R, i)
             /\ \A q \in insertSorted(queue, h, prio) : Over(q, R, i)
             /\ \A q \in {queue} : Over(q, R, i)
  <2> DEFINE P == prio
  <2> HIDE DEF h
  <2>1. \A q \in RemoveFirstOf(queue, h) : Over(q, R, i)
    BY <1>3, OverPick
  <2>2. \A q \in insertSorted(queue, h, P) : Over(q, R, i)
    <3> HIDE DEF P
    <3> QED
      BY <1>1, <1>3, OverInsert
  <2> QED
    BY <1>3, <2>1, <2>2
<1>4. /\ "completed" \in Status \ {"absent"} /\ "queued" \in Status \ {"absent"}
      /\ "dropped" \in Status \ {"absent"} /\ "deferred" \in Status \ {"absent"}
  BY DEF Status
<1>5. \E s, t, Q : /\ t \in {"queued", "completed"} /\ EndTurn(w, s, Q, t)
                   /\ \A q \in Q : Over(q, settle(rows, h, s), i)
  <2>1. CASE complete(w)
    BY <1>2, <1>3, <1>4, <2>1 DEF complete
  <2>2. CASE requeue(w)
    BY <1>2, <1>3, <1>4, <2>2 DEF requeue
  <2>3. CASE drop(w)
    BY <1>2, <1>3, <1>4, <2>3 DEF drop
  <2>4. CASE deferDequeued(w)
    BY <1>2, <1>3, <1>4, <2>4 DEF deferDequeued
  <2> QED
    BY <2>1, <2>2, <2>3, <2>4
<1> QED
  BY <1>1, <1>5, EndTurnOver, LeaveHeld

\* The item that is completed is over.
LEMMA CompleteOver ==
  ASSUME TypeOK, Created, PlaceInv, NEW w \in Workers, complete(w), Sure(hand[w]),
         rows[hand[w]].status # "absent"
  PROVE  Over(queue', rows', hand[w]) /\ hand[w] \notin HeldItems'
<1> DEFINE h == hand[w]
           R1 == settle(rows, h, "completed")
           Q == RemoveFirstOf(queue, h)
<1>1. /\ stage[w] = "working" /\ h \in Items /\ h \notin batch /\ ~IsQueued(queue, h)
      /\ EndTurn(w, "completed", Q, "completed")
  BY InHand DEF complete, Busy
<1>2. "completed" \in Status \ {"absent"} /\ rows \in [Items -> Row] /\ queue \in Seq(Items)
  BY DEF Status, TypeOK
<1>3. R1 \in [Items -> Row] /\ R1[h].status = "completed"
  <2>1. R1 = SettleAll(rows, {h}, "completed")
    BY <1>1, <1>2, OneRow
  <2>2. R1 \in [Items -> Row]
    BY <1>1, <1>2, <2>1, RowTypes
  <2>3. R1[h].status = "completed"
    BY <1>1, <1>2, SettleRow
  <2> QED
    BY <2>2, <2>3
<1>4. \A q \in Q : Over(q, R1, h)
  <2>1. Over(queue, R1, h)
    BY <1>1, <1>2, <1>3 DEF Over
  <2> HIDE DEF R1, h
  <2> QED
    BY <2>1, OverPick
<1>5. Over(queue', rows', h)
  BY <1>1, <1>4, EndTurnOver
<1>6. h \notin HeldItems'
  BY <1>1, LeaveHeld
<1> QED
  BY <1>5, <1>6

\* The recovery queues nothing that is completed.
LEMMA RecoveryOver ==
  ASSUME TypeOK, NEW R \in [Items -> Row], recoverStaleItems(R), NEW i \in Items,
         R[i].status = "completed"
  PROVE  Over(queue', rows', i)
<1> DEFINE O == Orphaned(R)
           R1 == markStaleProcessingAsDropped(O)
           waiting == {j \in Items : R1[j].status = "queued"}
           expired == {j \in waiting : R1[j].age > TTL(msg[j])}
           live == waiting \ expired
           R2 == SetStatus(R1, expired, "dropped")
           H(q) == SpareHeartbeats(q)
           M(q) == MergedAway(q, MergeKey)
           R3(q) == SetStatus(R2, At(q, H(q)), "dropped")
           R4(q) == SetStatus(R3(q), At(q, M(q)), "merged")
           P == prio'
           s == queue'
<1>1. "dropped" \in Status \ {"absent"} /\ "merged" \in Status \ {"absent"}
  BY DEF Status
<1>2. O \in [Items -> Row] /\ O[i].status = "completed"
  BY DEF Orphaned, Row
<1>3. R1 \in [Items -> Row] /\ R1[i].status = "completed"
  <2> HIDE DEF O
  <2>1. R1 \in [Items -> Row]
    BY <1>1, <1>2, RowTypes
  <2>2. R1[i].status = "completed"
    BY <1>2, MarkStaleRow DEF Orphan
  <2> QED
    BY <2>1, <2>2
<1>4. \E q \in Loaded(<<>>, live, P) :
        rows' = R4(q) /\ s \in Kept(q, (1..Len(q)) \ (H(q) \union M(q)))
  BY DEF recoverStaleItems
<1> HIDE DEF O, R1
<1>5. i \notin waiting /\ live \in SUBSET Items /\ i \notin live /\ i \notin expired
  BY <1>3
<1> HIDE DEF waiting
<1>6. Over(<<>>, R2, i)
  <2>1. Over(<<>>, R1, i)
    BY <1>3, EmptySeq DEF Over, IsQueued
  <2> HIDE DEF expired
  <2> QED
    BY <1>1, <1>5, <2>1, OverWrite
<1> HIDE DEF expired, R2, live, P, s
<1>7. PICK q \in Loaded(<<>>, live, P) :
        rows' = R4(q) /\ s \in Kept(q, (1..Len(q)) \ (H(q) \union M(q)))
  BY <1>4
<1>8. Over(q, R2, i)
  BY <1>5, <1>6, OverLoad
<1>9. i \notin At(q, H(q)) /\ i \notin At(q, M(q))
  BY <1>8 DEF Over, IsQueued, At, SpareHeartbeats, MergedAway
<1> HIDE DEF H, M
<1>10. (1..Len(q)) \ (H(q) \union M(q)) \in SUBSET (1..Len(q))
  OBVIOUS
<1>11. Over(s, R2, i)
  BY <1>7, <1>8, <1>10, OverPick
<1>12. Over(s, R3(q), i)
  BY <1>1, <1>9, <1>11, OverWrite
<1> HIDE DEF R3
<1>13. Over(s, R4(q), i)
  BY <1>1, <1>9, <1>12, OverWrite
<1> QED
  BY <1>7, <1>13 DEF s

\* The recovery holds nothing.
LEMMA RestartHeld ==
  ASSUME NEW R, Restart(R), NEW i
  PROVE  i \notin HeldItems'
<1>1. batch' = {} /\ \A v \in Workers : ~Busy(v)'
  BY DEF Restart, Busy
<1> QED
  BY <1>1 DEF HeldItems

\* The serial loop before it works on an item.
LEMMA TriageOver ==
  ASSUME TypeOK, Created, PlaceInv, NEW i \in Made, Over(queue, rows, i), i \notin HeldItems,
         NEW w \in Workers, preTriage(w) \/ abortDeliberation(w)
  PROVE  Over(queue', rows', i) /\ i \notin HeldItems'
<1> DEFINE h == hand[w]
           R1 == requeueItem(rows, h)
           P == prio
<1>1. /\ i \in Items /\ h \in Items /\ h # i /\ i \notin batch /\ UNCHANGED batch
      /\ \A v \in Workers \ {w} : stage'[v] = stage[v]
      /\ hand[w] # i
  BY StartPlaces, InHand DEF preTriage, abortDeliberation, Busy, HeldItems, TypeOK
<1>2. \A q \in insertSorted(queue, h, P) : Over(q, R1, i)
  <2> HIDE DEF h, P
  <2>1. Over(queue, R1, i)
    BY <1>1, OverClaim
  <2> HIDE DEF R1
  <2> QED
    BY <1>1, <2>1, OverInsert
<1>3. ASSUME NEW q, NEW R, Over(q, R, i), TakeHead(w, q, R)
      PROVE  Over(queue', rows', i) /\ i \notin HeldItems'
  <2>1. Over(queue', rows', i)
    BY <1>1, <1>3, OverTakeHead
  <2>2. hand' = hand \/ \E g \in Items : g # i /\ hand' = [hand EXCEPT ![w] = g]
    BY <1>1, <1>3, OverTakeHead
  <2>3. hand'[w] # i /\ \A v \in Workers \ {w} : hand'[v] = hand[v]
    BY <1>1, <2>2 DEF TypeOK
  <2>4. i \notin HeldItems'
    BY <1>1, <2>3, MoveHeld
  <2> QED
    BY <2>1, <2>4
<1>4. CASE abortDeliberation(w)
  <2>1. PICK q \in insertSorted(queue, h, P) : TakeHead(w, q, R1)
    BY <1>4 DEF abortDeliberation
  <2> HIDE DEF R1, P, h
  <2> QED
    BY <1>2, <1>3, <2>1
<1>5. CASE preTriage(w)
  <2> DEFINE Purged(q) == purgeStaleItems(q, R1)
             R2(q) == SetStatus(R1, Purged(q), "dropped")
             M(q) == consolidateByEntity(q)
             R3(q, r) == SetStatus(R2(q), At(r, M(r)), "merged")
  <2>1. PICK q1 \in insertSorted(queue, h, P) :
          \E q2 \in Without(q1, Purged(q1)) :
          \E q3 \in Kept(q2, (1..Len(q2)) \ M(q2)) : TakeHead(w, q3, R3(q1, q2))
    BY <1>5 DEF preTriage
  <2>2. PICK q2 \in Without(q1, Purged(q1)) :
          \E q3 \in Kept(q2, (1..Len(q2)) \ M(q2)) : TakeHead(w, q3, R3(q1, q2))
    BY <2>1
  <2>3. PICK q3 \in Kept(q2, (1..Len(q2)) \ M(q2)) : TakeHead(w, q3, R3(q1, q2))
    BY <2>2
  <2> HIDE DEF R1, P, h
  <2>4. "dropped" \in Status \ {"absent"} /\ "merged" \in Status \ {"absent"}
    BY DEF Status
  <2>5. Over(q1, R1, i)
    BY <1>2
  <2>6. i \notin Purged(q1)
    BY <2>5 DEF Over, purgeStaleItems
  <2> HIDE DEF Purged
  <2>7. Over(q2, R1, i)
    BY <2>5, OverPick
  <2>8. Over(q2, R2(q1), i)
    BY <1>1, <2>4, <2>6, <2>7, OverWrite
  <2> HIDE DEF R2
  <2>9. i \notin At(q2, M(q2))
    BY <2>8 DEF Over, IsQueued, At, consolidateByEntity, MergedAway
  <2>10. (1..Len(q2)) \ M(q2) \in SUBSET (1..Len(q2))
    OBVIOUS
  <2> HIDE DEF M
  <2>11. Over(q3, R2(q1), i)
    BY <2>8, <2>10, OverPick
  <2>12. Over(q3, R3(q1, q2), i)
    BY <1>1, <2>4, <2>9, <2>11, OverWrite
  <2> HIDE DEF R3
  <2> QED
    BY <1>3, <2>3, <2>12
<1> QED
  BY <1>4, <1>5

\* What deliberation decides is about other items.
LEMMA DeliberationOver ==
  ASSUME TypeOK, Created, PlaceInv, NEW i \in Made, Over(queue, rows, i), i \notin HeldItems,
         NEW w \in Workers, applyDeliberationResult(w)
  PROVE  Over(queue', rows', i) /\ i \notin HeldItems'
<1> DEFINE h == hand[w]
<1>1. /\ i \in Items /\ Made \subseteq Items /\ h \in Items /\ h # i /\ i \notin batch
      /\ \A v \in Workers \ {w} : stage'[v] = stage[v]
      /\ ~IsQueued(queue, i) /\ i \notin Listed(w)
  BY StartPlaces, InHand DEF applyDeliberationResult, Busy, HeldItems, TypeOK, Over, Listed
<1>2. PICK j \in Made : \E verdict \in [Listed(w) \ {j} -> Verdicts] : Decide(w, j, verdict)
  BY DEF applyDeliberationResult, Made
<1>3. PICK verdict \in [Listed(w) \ {j} -> Verdicts] : Decide(w, j, verdict)
  BY <1>2
<1> DEFINE Said(v) == {k \in DOMAIN verdict :
                         verdict[k] = v /\ (k = h \/ ~isProtected(msg[k]))}
           C == Said("complete") \ {h}
           B(t) == {k \in Said("batch") : Takes(t.queue, t.rows, k)}
           D(t) == {k \in Said("defer") : IsQueued(t.queue, k)}
           R(t) == [k \in Items |-> IF k \in B(t) THEN claimItem(t.rows, k)[k] ELSE t.rows[k]]
           G(t) == Said("batch") \union D(t) \union Said("drop")
           X == SettleAll(rows, C, "completed")
<1>4. PICK q \in Without(queue, C) : \E t \in Chosen(q, X, h, j) :
        /\ queue' \in Without(t.queue, G(t))
        /\ rows' = SettleAll(SetStatus(R(t), D(t), "deferred"), Said("drop"), "dropped")
        /\ hand' = [hand EXCEPT ![w] = t.item] /\ batch' = B(t)
  BY <1>3 DEF Decide
<1>5. PICK t \in Chosen(q, X, h, j) :
        /\ queue' \in Without(t.queue, G(t))
        /\ rows' = SettleAll(SetStatus(R(t), D(t), "deferred"), Said("drop"), "dropped")
        /\ hand' = [hand EXCEPT ![w] = t.item] /\ batch' = B(t)
  BY <1>4
<1>6. \A v : i \notin Said(v)
  BY <1>1
<1>7. /\ "completed" \in Status \ {"absent"} /\ "deferred" \in Status \ {"absent"}
      /\ "dropped" \in Status \ {"absent"}
  BY DEF Status
<1>8. i \notin B(t) /\ i \notin D(t)
  BY <1>6
<1> HIDE DEF Said, h, D, G
<1>9. Over(q, X, i)
  <2> HIDE DEF C
  <2>1. Over(q, rows, i)
    BY OverPick
  <2> QED
    BY <1>1, <1>7, <2>1, OverWrite
<1> HIDE DEF X
<1>10. Over(t.queue, t.rows, i) /\ t.item # i
  <2> HIDE DEF R, B, C
  <2>1. j \in Items
    BY <1>1
  <2>2. \A z \in Chosen(q, X, h, j) : Over(z.queue, z.rows, i) /\ z.item # i
    BY <1>1, <1>9, <2>1, OverChosen
  <2> QED
    BY <2>2
<1>11. Over(t.queue, R(t), i)
  <2> DEFINE S == t.rows
  <2>1. S \in [Items -> Row]
    BY <1>10 DEF Over
  <2> HIDE DEF S
  <2>2. \A k \in Items : claimItem(S, k) \in [Items -> Row]
    BY <2>1, ClaimRowTypes
  <2>3. \A k \in Items : claimItem(S, k)[k] \in Row /\ S[k] \in Row
    BY <2>1, <2>2
  <2>4. \A k \in Items : claimItem(t.rows, k)[k] \in Row /\ t.rows[k] \in Row
    BY <2>3 DEF S
  <2> HIDE DEF B
  <2>5. R(t) \in [Items -> Row] /\ R(t)[i] = t.rows[i]
    BY <1>1, <1>8, <2>4
  <2> QED
    BY <1>10, <2>5 DEF Over
<1> HIDE DEF R
<1>12. Over(t.queue, SetStatus(R(t), D(t), "deferred"), i)
  BY <1>1, <1>7, <1>8, <1>11, OverWrite
<1> DEFINE Y == SetStatus(R(t), D(t), "deferred")
<1> HIDE DEF Y
<1>13. Over(t.queue, SettleAll(Y, Said("drop"), "dropped"), i)
  BY <1>1, <1>6, <1>7, <1>12, OverWrite DEF Y
<1>14. Over(queue', rows', i)
  BY <1>5, <1>13, OverPick DEF Y
<1>15. i \notin HeldItems'
  <2>1. /\ i \notin batch' /\ hand'[w] # i /\ \A v \in Workers \ {w} : hand'[v] = hand[v]
    BY <1>5, <1>8, <1>10 DEF TypeOK
  <2> QED
    BY <1>1, <2>1, MoveHeld
<1> QED
  BY <1>14, <1>15

\* shutdown delivers the item in hand again, or queues an old row that was
\* dropped.
LEMMA ShutdownOver ==
  ASSUME TypeOK, TypeOK', Created, PlaceInv, NEW i \in Made, Over(queue, rows, i), i \notin HeldItems,
         NEW w \in Workers, shutdown(w)
  PROVE  Over(queue', rows', i) /\ i \notin HeldItems'
<1> DEFINE h == hand[w]
           P == prio
           s == queue'
           X == rows'
<1>1. /\ i \in Items /\ h \in Items /\ h # i /\ i \notin batch /\ UNCHANGED batch
      /\ stage'[w] = "idle"
      /\ \A v \in Workers \ {w} : hand'[v] = hand[v] /\ stage'[v] = stage[v]
  BY StartPlaces, InHand DEF shutdown, Busy, HeldItems, TypeOK
<1>2. i \notin HeldItems'
  BY <1>1, MoveHeld
<1>3. rows[i].status = "completed"
  BY DEF Over
<1>4. \/ UNCHANGED <<queue, rows>>
      \/ \E e \in Items : \E p : e # i /\ reinjectExistingRow(e, p)
      \/ s \in insertSorted(queue, h, P) /\ X = save(rows, h, prio[h])
  <2>1. CASE reEnqueueOnShutdown(h)
    <3>1. CASE rows[h].status \in Requeueable
      BY <1>1, <2>1, <3>1 DEF reEnqueueOnShutdown, Requeueable
    <3>2. CASE rows[h].status \notin Requeueable
      <4>1. \/ UNCHANGED <<queue, rows>>
            \/ s \in insertSorted(queue, h, P) /\ X = save(rows, h, prio[h])
            \/ \E e \in SameRound(msg[h]) :
                 resolveReinjectDecision(rows[e].status) = "reuse" /\ reinjectExistingRow(e, prio[h])
        BY <2>1, <3>2 DEF reEnqueueOnShutdown, Requeueable
      <4> QED
        BY <1>3, <4>1 DEF SameRound, resolveReinjectDecision
    <3> QED
      BY <3>1, <3>2
  <2>2. CASE UNCHANGED <<prio, rows, queue>>
    BY <2>2
  <2> QED
    BY <2>1, <2>2 DEF shutdown
<1>5. CASE \E e \in Items : \E p : e # i /\ reinjectExistingRow(e, p)
  BY <1>1, <1>2, <1>5, OverReinject
<1>6. CASE s \in insertSorted(queue, h, P) /\ X = save(rows, h, prio[h])
  <2>1. X \in [Items -> Row] /\ X[i] = rows[i]
    BY <1>1, <1>6 DEF TypeOK, save
  <2>2. Over(queue, X, i) /\ s \in insertSorted(queue, h, P)
    BY <1>6, <2>1 DEF Over
  <2> HIDE DEF h, P, X, s
  <2>3. Over(s, X, i)
    BY <1>1, <2>2, OverInsert
  <2> QED
    BY <1>2, <2>3 DEF s, X
<1>7. CASE UNCHANGED <<queue, rows>>
  BY <1>2, <1>7
<1> QED
  BY <1>4, <1>5, <1>6, <1>7

\* Resurfacing loads deferred items, dequeue takes a queued one, lockEntities
\* may put one back.
LEMMA WorkerOver ==
  ASSUME TypeOK, Created, PlaceInv, NEW i \in Made, Over(queue, rows, i), i \notin HeldItems,
         NEW w \in Workers, resurfaceDue(w) \/ dequeue(w) \/ dequeueNothing(w) \/ lockEntities(w)
  PROVE  Over(queue', rows', i) /\ i \notin HeldItems'
<1>1. /\ i \in Items /\ ~IsQueued(queue, i) /\ rows[i].status = "completed"
      /\ queue \in Seq(Items) /\ rows \in [Items -> Row]
  BY StartPlaces DEF Over
<1>2. i \notin batch
  BY DEF HeldItems
<1>3. CASE resurfaceDue(w)
  <2> DEFINE P == prio'
             r == queue'
             X == rows'
  <2>1. PICK S \in SUBSET {j \in Items : rows[j].status = "deferred" /\ ~IsQueued(queue, j)} :
          X = SetStatus(rows, S, "queued") /\ r \in Loaded(queue, S, P)
    BY <1>3 DEF resurfaceDue
  <2>2. S \in SUBSET Items /\ i \notin S /\ "queued" \in Status \ {"absent"}
    BY <1>1 DEF Status
  <2> HIDE DEF P, r, X
  <2>3. Over(r, rows, i)
    BY <2>1, <2>2, OverLoad
  <2>4. Over(r, SetStatus(rows, S, "queued"), i)
    BY <1>1, <2>2, <2>3, OverWrite
  <2>5. HeldItems' = HeldItems
    BY <1>3 DEF resurfaceDue, HeldItems, Busy
  <2> QED
    BY <2>1, <2>4, <2>5 DEF r, X
<1>4. CASE dequeue(w)
  <2>1. PICK n \in Claimed(queue, rows) : /\ rows' = claimItem(rows, queue[n])
                                          /\ queue' \in AfterClaim(queue, n)
                                          /\ hand' = [hand EXCEPT ![w] = queue[n]]
    BY <1>4 DEF dequeue
  <2>2. queue[n] \in Items /\ queue[n] # i
    BY <1>1, ElementOfSeq DEF Claimed, IsQueued
  <2>3. Over(queue', rows, i)
    BY <2>1, OverPick
  <2>4. Over(queue', claimItem(rows, queue[n]), i)
    BY <1>1, <2>2, <2>3, OverClaim
  <2>5. i \notin HeldItems'
    <3>1. /\ hand'[w] # i /\ batch' = batch
          /\ \A v \in Workers \ {w} : hand'[v] = hand[v] /\ stage'[v] = stage[v]
      BY <1>4, <2>1, <2>2 DEF dequeue, TypeOK
    <3> QED
      BY <1>2, <3>1, MoveHeld
  <2> QED
    BY <2>1, <2>4, <2>5
<1>5. CASE dequeueNothing(w)
  <2>1. HeldItems' = HeldItems /\ rows' = rows
    BY <1>5 DEF dequeueNothing, HeldItems, Busy
  <2> QED
    BY <1>5, <2>1, OverPick DEF dequeueNothing
<1>6. CASE lockEntities(w)
  <2> DEFINE h == hand[w]
             P == prio
  <2>1. h \in Items /\ h # i
    BY <1>6, InHand DEF lockEntities, Busy, HeldItems
  <2>2. \/ rows' = rows /\ queue' = queue
        \/ rows' = requeueItem(rows, h) /\ queue' \in insertSorted(queue, h, P)
    BY <1>6 DEF lockEntities, putBack
  <2>3. i \notin HeldItems'
    <3>1. /\ batch' = batch
          /\ \A v \in Workers \ {w} : hand'[v] = hand[v] /\ stage'[v] = stage[v]
          /\ hand'[w] = h \/ stage'[w] = "idle"
      BY <1>6 DEF lockEntities, putBack, TypeOK
    <3> QED
      BY <1>2, <2>1, <3>1, MoveHeld
  <2> HIDE DEF h, P
  <2>4. Over(queue, requeueItem(rows, h), i)
    BY <1>1, <2>1, OverClaim
  <2>5. \A q \in insertSorted(queue, h, P) : Over(q, requeueItem(rows, h), i)
    BY <2>1, <2>4, OverInsert
  <2> QED
    BY <2>2, <2>3, <2>5
<1> QED
  BY <1>3, <1>4, <1>5, <1>6

\* The tools act on queued items.
LEMMA ToolOver ==
  ASSUME TypeOK, TypeOK', PlaceInv, NEW i \in Made, Over(queue, rows, i),
         \/ \E j \in Items : deferItem(j) \/ dropItem(j) \/ \E p : updatePriority(j, p)
         \/ \E j \in Items, w \in Workers : merge(w, j)
         \/ \E t : dropStatusUpdatesByTaskId(t)
  PROVE  Over(queue', rows', i)
<1>1. /\ i \in Items /\ ~IsQueued(queue, i) /\ rows \in [Items -> Row]
      /\ "deferred" \in Status \ {"absent"} /\ "dropped" \in Status \ {"absent"}
      /\ "merged" \in Status \ {"absent"} /\ "queued" \in Status \ {"absent"}
  BY StartPlaces DEF Over, Status
<1>2. ASSUME NEW S, i \notin S, NEW t \in Status \ {"absent"},
             rows' = SetStatus(rows, S, t) \/ rows' = SettleAll(rows, S, t),
             (\E j : queue' \in RemoveFirstOf(queue, j)) \/ \E T : queue' \in Without(queue, T)
      PROVE  Over(queue', rows', i)
  <2>1. Over(queue', rows, i)
    BY <1>2, OverPick
  <2>2. Over(queue', SetStatus(rows, S, t), i) /\ Over(queue', SettleAll(rows, S, t), i)
    BY <1>1, <1>2, <2>1, OverWrite
  <2> QED
    BY <1>2, <2>2
<1>3. ASSUME NEW j \in Items, deferItem(j) \/ dropItem(j) \/ \E w \in Workers : merge(w, j)
      PROVE  Over(queue', rows', i)
  <2>1. /\ IsQueued(queue, j) /\ queue' \in RemoveFirstOf(queue, j)
        /\ \/ rows' = updateStatus(rows, j, "deferred")
           \/ rows' = settle(rows, j, "dropped")
           \/ rows' = settle(rows, j, "merged")
    BY <1>3 DEF deferItem, dropItem, merge
  <2>2. i \notin {j}
    BY <1>1, <2>1
  <2>3. \/ rows' = SetStatus(rows, {j}, "deferred")
        \/ rows' = SettleAll(rows, {j}, "dropped")
        \/ rows' = SettleAll(rows, {j}, "merged")
    BY <1>1, <2>1, OneRow
  <2> QED
    BY <1>1, <1>2, <2>1, <2>2, <2>3
<1>4. ASSUME NEW j \in Items, NEW p, updatePriority(j, p) PROVE Over(queue', rows', i)
  <2> DEFINE P == prio'
             s == queue'
             X == rows'
  <2>1. j # i
    BY <1>1, <1>4 DEF updatePriority
  <2>2. X \in [Items -> Row] /\ X[i] = rows[i]
    BY <1>1, <1>4, <2>1 DEF updatePriority, updateStatus, TypeOK
  <2>3. PICK q \in RemoveFirstOf(queue, j) : s \in insertSorted(q, j, P)
    BY <1>4 DEF updatePriority
  <2> HIDE DEF P, s
  <2>4. Over(q, rows, i)
    BY OverPick
  <2>5. Over(q, X, i)
    BY <2>2, <2>4 DEF Over
  <2> HIDE DEF X
  <2>6. Over(s, X, i)
    BY <1>4, <2>1, <2>3, <2>5, OverInsert
  <2> QED
    BY <2>6 DEF s, X
<1>5. ASSUME NEW t, dropStatusUpdatesByTaskId(t) PROVE Over(queue', rows', i)
  <2> DEFINE S == {j \in Items : /\ IsQueued(queue, j)
                                 /\ msg[j].type = "task_status_update"
                                 /\ ~isStrictStateItem(msg[j]) /\ msg[j].ref["task"] = t}
  <2>1. rows' = SetStatus(rows, S, "dropped") /\ i \notin S /\ queue' \in Without(queue, S)
    BY <1>1, <1>5 DEF dropStatusUpdatesByTaskId
  <2> HIDE DEF S
  <2> QED
    BY <1>1, <1>2, <2>1
<1> QED
  BY <1>3, <1>4, <1>5

\* What is over stays over, unless it is dropped by identifier.
LEMMA StepOver ==
  ASSUME TypeOK, TypeOK', Created, PlaceInv, Droppable = {}, [Next]_vars,
         NEW i \in Made, Over(queue, rows, i), i \notin HeldItems
  PROVE  Over(queue', rows', i) /\ i \notin HeldItems'
<1>1. i \in Items /\ rows \in [Items -> Row] /\ rows[i].status = "completed"
  BY StartPlaces DEF Over
<1>2. CASE UNCHANGED <<hand, stage, batch>> /\ Over(queue', rows', i)
  BY <1>2 DEF HeldItems, Busy
<1>3. ASSUME queue' = queue, rows' \in [Items -> Row], rows'[i].status = "completed"
      PROVE  Over(queue', rows', i)
  BY <1>3 DEF Over
<1>4. ASSUME NEW m \in Messages, enqueue(m)
      PROVE  UNCHANGED <<hand, stage, batch>> /\ Over(queue', rows', i)
  BY <1>4, EnqueueOver DEF enqueue
<1>5. ASSUME NEW w \in Workers,
             \/ resurfaceDue(w) \/ dequeue(w) \/ dequeueNothing(w) \/ lockEntities(w)
             \/ complete(w) \/ requeue(w) \/ drop(w) \/ deferDequeued(w)
             \/ preTriage(w) \/ abortDeliberation(w) \/ applyDeliberationResult(w) \/ shutdown(w)
      PROVE  Over(queue', rows', i) /\ i \notin HeldItems'
  <2>1. CASE resurfaceDue(w) \/ dequeue(w) \/ dequeueNothing(w) \/ lockEntities(w)
    BY <2>1, WorkerOver
  <2>2. CASE complete(w) \/ requeue(w) \/ drop(w) \/ deferDequeued(w)
    BY <1>1, <2>2, SettleOver
  <2>3. CASE preTriage(w) \/ abortDeliberation(w)
    BY <2>3, TriageOver
  <2>4. CASE applyDeliberationResult(w)
    BY <2>4, DeliberationOver
  <2>5. CASE shutdown(w)
    BY <2>5, ShutdownOver
  <2> QED
    BY <1>5, <2>1, <2>2, <2>3, <2>4, <2>5
<1>6. ASSUME NEW w \in Workers, unlockEntities(w) \/ focus(w) \/ renewLease(w)
      PROVE  Over(queue', rows', i) /\ i \notin HeldItems'
  <2>1. queue' = queue /\ batch' = batch /\ rows'[i].status = "completed" /\ i \notin batch
    BY <1>1, <1>6 DEF unlockEntities, focus, renewLease, Memory, HeldItems, Row
  <2>2. Over(queue', rows', i)
    BY <1>3, <2>1 DEF TypeOK
  <2>3. /\ \A v \in Workers \ {w} : hand'[v] = hand[v] /\ stage'[v] = stage[v]
        /\ stage'[w] \in {"claimed", "deliberating", "working"} => hand'[w] = hand[w] /\ Busy(w)
    BY <1>6 DEF unlockEntities, focus, renewLease, Memory, TypeOK, Busy
  <2>4. Busy(w) => hand[w] # i
    BY DEF HeldItems
  <2> QED
    BY <2>1, <2>2, <2>3, <2>4, MoveHeld
<1>7. ASSUME NEW j \in Items,
             \/ deferItem(j) \/ dropItem(j) \/ \E p : updatePriority(j, p)
             \/ \E w \in Workers : merge(w, j)
      PROVE  UNCHANGED <<hand, stage, batch>> /\ Over(queue', rows', i)
  <2>1. UNCHANGED <<hand, stage, batch>>
    BY <1>7 DEF deferItem, dropItem, updatePriority, merge, Memory
  <2> QED
    BY <1>7, <2>1, ToolOver
<1>8. ASSUME NEW t, dropStatusUpdatesByTaskId(t)
      PROVE  UNCHANGED <<hand, stage, batch>> /\ Over(queue', rows', i)
  <2>1. UNCHANGED <<hand, stage, batch>>
    BY <1>8 DEF dropStatusUpdatesByTaskId, Memory
  <2> QED
    BY <1>8, <2>1, ToolOver
<1>9. ASSUME NEW j \in Items PROVE ~dropById(j)
  BY DEF dropById
<1>10. CASE cleanStaleProcessing \/ Age \/ \E j \in Items : LeaseExpires(j)
  <2>1. queue' = queue /\ UNCHANGED <<hand, stage, batch>>
    BY <1>10 DEF cleanStaleProcessing, Age, LeaseExpires, Memory
  <2>2. rows'[i].status = "completed"
    <3>1. CASE cleanStaleProcessing
      BY <1>1, <3>1, MarkStaleRow DEF cleanStaleProcessing, Orphan
    <3>2. CASE Age
      BY <1>1, <3>2 DEF Age, Open
    <3>3. CASE \E j \in Items : LeaseExpires(j)
      BY <1>1, <3>3 DEF LeaseExpires, Row
    <3> QED
      BY <1>10, <3>1, <3>2, <3>3
  <2> QED
    BY <1>2, <1>3, <2>1, <2>2 DEF TypeOK
<1>11. CASE Crash
  BY <1>1, <1>11, RecoveryOver, RestartHeld DEF Crash, Restart
<1>12. ASSUME NEW w \in Workers, NEW s \in {"queued", "completed", "deferred", "dropped"},
              CrashWhileSettling(w, s)
       PROVE  Over(queue', rows', i) /\ i \notin HeldItems'
  <2> DEFINE U == updateStatus(rows, hand[w], s)
  <2>1. stage[w] = "working" /\ Restart(U)
    BY <1>12 DEF CrashWhileSettling
  <2>2. hand[w] \in Items /\ hand[w] # i /\ s \in Status \ {"absent"}
    BY <2>1, InHand DEF Busy, HeldItems, Status
  <2>3. U = SetStatus(rows, {hand[w]}, s)
    BY <1>1, <2>2, OneRow
  <2>4. U \in [Items -> Row]
    BY <1>1, <2>2, <2>3, RowTypes
  <2>5. U[i].status = "completed"
    BY <1>1, <2>2 DEF updateStatus
  <2> HIDE DEF U
  <2> QED
    BY <1>1, <2>1, <2>4, <2>5, RecoveryOver, RestartHeld DEF Restart
<1>13. CASE UNCHANGED vars
  BY <1>2, <1>13 DEF vars
<1> QED
  BY <1>2, <1>4, <1>5, <1>6, <1>7, <1>8, <1>9, <1>10, <1>11, <1>12, <1>13 DEF Next

\* Every item has its row, no two items are of one review round, and the
\* rounds that some worker has completed are over.
Rounds ==
  /\ \A i \in Made : rows[i].status # "absent"
  /\ \A i, j \in Made : mailboxDedupKey(msg[i]) = mailboxDedupKey(msg[j])
                        /\ mailboxDedupKey(msg[i]) # <<>> => i = j
  /\ \A i \in served : /\ i \in Made /\ mailboxDedupKey(msg[i]) # <<>>
                       /\ Over(queue, rows, i) /\ i \notin HeldItems

\* Only a delivery creates an item, with a row and for a round of its own.
LEMMA DeliveryRounds ==
  ASSUME TypeOK, Created, PlaceInv, ~SaveFaults, Rounds, [Next]_vars
  PROVE  \/ UNCHANGED msg
         \/ \E m \in Messages : /\ NextItem \in Items /\ msg' = Append(msg, m)
                                /\ rows'[NextItem].status # "absent"
                                /\ \A i \in Made : mailboxDedupKey(m) = <<>>
                                      \/ mailboxDedupKey(msg[i]) # mailboxDedupKey(m)
                                /\ served' = served
<1>1. ASSUME NEW m \in Messages, enqueue(m), msg' # msg
      PROVE  /\ NextItem \in Items /\ msg' = Append(msg, m) /\ served' = served
             /\ rows' = save(rows, NextItem, m.prio) /\ SameRound(m) = {}
  BY <1>1 DEF enqueue, insertNew
<1>2. ASSUME NEW m \in Messages, enqueue(m), msg' # msg
      PROVE  /\ rows'[NextItem].status # "absent"
             /\ \A i \in Made : mailboxDedupKey(m) = <<>>
                                \/ mailboxDedupKey(msg[i]) # mailboxDedupKey(m)
  <2>1. rows'[NextItem].status # "absent"
    BY <1>1, <1>2 DEF save, Waiting, TypeOK
  <2>2. \A i \in Made : i \in Items /\ rows[i].status # "absent"
    BY MadeItems DEF Rounds
  <2> QED
    BY <1>1, <1>2, <2>1, <2>2 DEF SameRound
<1>3. CASE UNCHANGED vars
  BY <1>3 DEF vars
<1>4. CASE \E m \in Messages : enqueue(m)
  BY <1>1, <1>2, <1>4
<1>5. CASE \E w \in Workers :
       \/ dequeue(w) \/ dequeueNothing(w) \/ lockEntities(w) \/ unlockEntities(w)
       \/ complete(w) \/ requeue(w) \/ drop(w) \/ deferDequeued(w)
  BY <1>5 DEF dequeue, dequeueNothing, lockEntities, unlockEntities, complete, requeue, drop,
              deferDequeued
<1>6. CASE \E w \in Workers :
       \/ resurfaceDue(w) \/ preTriage(w) \/ focus(w) \/ abortDeliberation(w)
       \/ applyDeliberationResult(w) \/ shutdown(w) \/ renewLease(w)
       \/ \E i \in Items : merge(w, i)
       \/ \E s \in {"queued", "completed", "deferred", "dropped"} : CrashWhileSettling(w, s)
  BY <1>6 DEF resurfaceDue, preTriage, focus, abortDeliberation, applyDeliberationResult, shutdown,
              renewLease, merge, CrashWhileSettling, Restart, Memory
<1>7. CASE \/ \E i \in Items : \/ deferItem(i) \/ dropItem(i) \/ dropById(i) \/ LeaseExpires(i)
                               \/ \E p \in Priorities : updatePriority(i, p)
           \/ \E t \in Tasks : dropStatusUpdatesByTaskId(t)
           \/ cleanStaleProcessing \/ Age \/ Crash
  BY <1>7 DEF deferItem, dropItem, dropById, LeaseExpires, updatePriority,
              dropStatusUpdatesByTaskId, cleanStaleProcessing, Age, Crash, Restart, Memory
<1> QED
  BY <1>3, <1>4, <1>5, <1>6, <1>7 DEF Next

\* A round is completed by the worker that has it, whose item is then over.
LEMMA ServedOver ==
  ASSUME TypeOK, TypeOK', Created, PlaceInv, Droppable = {}, Rounds, [Next]_vars,
         NEW i \in served', i \notin served
  PROVE  /\ i \in Made /\ mailboxDedupKey(msg[i]) # <<>> /\ UNCHANGED msg
         /\ Over(queue', rows', i) /\ i \notin HeldItems'
<1>1. \/ \E w \in Workers : complete(w) /\ i = hand[w] /\ mailboxDedupKey(msg[i]) # <<>>
      \/ \E w \in Workers : /\ CrashWhileSettling(w, "completed") /\ i = hand[w]
                            /\ mailboxDedupKey(msg[i]) # <<>>
  <2>1. served' # served
    OBVIOUS
  <2>2. ASSUME NEW w \in Workers, complete(w)
        PROVE  i = hand[w] /\ mailboxDedupKey(msg[i]) # <<>>
    BY <2>2 DEF complete, Serve
  <2>3. ASSUME NEW w \in Workers, NEW s, CrashWhileSettling(w, s)
        PROVE  s = "completed" /\ i = hand[w] /\ mailboxDedupKey(msg[i]) # <<>>
    BY <2>3 DEF CrashWhileSettling, Serve
  <2>4. ~UNCHANGED vars /\ ~\E m \in Messages : enqueue(m)
    BY <2>1 DEF vars, enqueue
  <2>5. ~\E w \in Workers :
       \/ dequeue(w) \/ dequeueNothing(w) \/ lockEntities(w) \/ unlockEntities(w)
       \/ requeue(w) \/ drop(w) \/ deferDequeued(w)
    BY <2>1 DEF dequeue, dequeueNothing, lockEntities, unlockEntities, requeue, drop, deferDequeued
  <2>6. ~\E w \in Workers :
       \/ resurfaceDue(w) \/ preTriage(w) \/ focus(w) \/ abortDeliberation(w)
       \/ applyDeliberationResult(w) \/ shutdown(w) \/ renewLease(w)
       \/ \E j \in Items : merge(w, j)
    BY <2>1 DEF resurfaceDue, preTriage, focus, abortDeliberation, applyDeliberationResult, shutdown,
              renewLease, merge, Memory
  <2>7. ~(\/ \E j \in Items : \/ deferItem(j) \/ dropItem(j) \/ dropById(j) \/ LeaseExpires(j)
                              \/ \E p \in Priorities : updatePriority(j, p)
          \/ \E t \in Tasks : dropStatusUpdatesByTaskId(t)
          \/ cleanStaleProcessing \/ Age \/ Crash)
    BY <2>1 DEF deferItem, dropItem, dropById, LeaseExpires, updatePriority,
                dropStatusUpdatesByTaskId, cleanStaleProcessing, Age, Crash, Memory
  <2> QED
    BY <2>2, <2>3, <2>4, <2>5, <2>6, <2>7 DEF Next
<1>2. CASE \E w \in Workers : complete(w) /\ i = hand[w] /\ mailboxDedupKey(msg[i]) # <<>>
  <2>1. PICK w \in Workers : complete(w) /\ i = hand[w] /\ mailboxDedupKey(msg[i]) # <<>>
    BY <1>2
  <2>2. hand[w] \in Made /\ Sure(hand[w]) /\ UNCHANGED msg
    BY <2>1, InHand DEF complete, Busy, Sure
  <2>3. rows[hand[w]].status # "absent"
    BY <2>2 DEF Rounds
  <2>4. Over(queue', rows', hand[w]) /\ hand[w] \notin HeldItems'
    BY <2>1, <2>2, <2>3, CompleteOver
  <2> QED
    BY <2>1, <2>2, <2>4
<1>3. CASE \E w \in Workers : /\ CrashWhileSettling(w, "completed") /\ i = hand[w]
                              /\ mailboxDedupKey(msg[i]) # <<>>
  <2>1. PICK w \in Workers : /\ CrashWhileSettling(w, "completed") /\ i = hand[w]
                             /\ mailboxDedupKey(msg[i]) # <<>>
    BY <1>3
  <2> DEFINE U == updateStatus(rows, hand[w], "completed")
  <2>2. stage[w] = "working" /\ Restart(U)
    BY <2>1 DEF CrashWhileSettling
  <2>3. i \in Made /\ i \in Items /\ UNCHANGED msg /\ rows[i].status # "absent" /\ rows \in [Items -> Row]
    BY <2>1, <2>2, InHand DEF Busy, Restart, Rounds, TypeOK
  <2>4. "completed" \in Status \ {"absent"}
    BY DEF Status
  <2>5. U = SetStatus(rows, {i}, "completed")
    BY <2>1, <2>3, <2>4, OneRow
  <2>6. U \in [Items -> Row]
    BY <2>3, <2>4, <2>5, RowTypes
  <2>7. U[i].status = "completed"
    BY <2>1, <2>3, <2>4, UpdateRow
  <2> HIDE DEF U
  <2> QED
    BY <2>1, <2>2, <2>3, <2>6, <2>7, RecoveryOver, RestartHeld DEF Restart
<1> QED
  BY <1>1, <1>2, <1>3

\* Every step keeps the rounds, if every INSERT is written and nothing is
\* dropped by identifier.
LEMMA StepRounds ==
  ASSUME TypeOK, TypeOK', Created, PlaceInv, Droppable = {}, ~SaveFaults, Rounds, [Next]_vars
  PROVE  Rounds'
<1>1. /\ Made \subseteq Items /\ Len(msg) \in Nat
      /\ \A i \in Made : msg[i] \in Messages
  BY MadeItems, ElementOfSeq DEF TypeOK, Made
<1>2. \A i \in Made : rows'[i].status # "absent"
  <2>1. ASSUME NEW i \in Made PROVE rows'[i].status # "absent"
    <3>1. i \in Items /\ rows[i].status # "absent"
      BY <1>1 DEF Rounds
    <3>2. Stays(rows', i, Deleted) \/ rows'[i].status = "merged"
      BY <3>1, StepStays
    <3> QED
      BY <3>2 DEF Stays, Deleted
  <2> QED
    BY <2>1
<1>3. ASSUME NEW i \in served' PROVE /\ i \in Made /\ mailboxDedupKey(msg[i]) # <<>>
                                     /\ Over(queue', rows', i) /\ i \notin HeldItems'
  <2>1. CASE i \in served
    BY <2>1, StepOver DEF Rounds
  <2>2. CASE i \notin served
    BY <1>3, <2>2, ServedOver
  <2> QED
    BY <2>1, <2>2
<1>4. CASE UNCHANGED msg
  <2>1. Made' = Made
    BY <1>4 DEF Made
  <2> QED
    BY <1>2, <1>3, <1>4, <2>1 DEF Rounds, Over, IsQueued
<1>5. CASE msg' # msg
  <2>1. PICK m \in Messages : /\ NextItem \in Items /\ msg' = Append(msg, m)
                              /\ rows'[NextItem].status # "absent"
                              /\ \A i \in Made : mailboxDedupKey(m) = <<>>
                                    \/ mailboxDedupKey(msg[i]) # mailboxDedupKey(m)
    BY <1>5, DeliveryRounds
  <2> DEFINE n == NextItem
  <2>2. /\ Made' = Made \union {n} /\ n \notin Made /\ msg'[n] = m
        /\ \A i \in Made : msg'[i] = msg[i]
    BY <1>1, <2>1 DEF NextItem, Made, TypeOK
  <2> HIDE DEF n
  <2>3. \A i \in Made' : rows'[i].status # "absent"
    BY <1>2, <2>1, <2>2 DEF n
  <2>4. ASSUME NEW i \in Made', NEW j \in Made', mailboxDedupKey(msg'[i]) = mailboxDedupKey(msg'[j]),
               mailboxDedupKey(msg'[i]) # <<>>
        PROVE  i = j
    <3>1. CASE i \in Made /\ j \in Made
      BY <2>2, <2>4, <3>1 DEF Rounds
    <3>2. CASE i = n /\ j = n
      BY <3>2
    <3>3. CASE i = n /\ j \in Made
      <4>1. mailboxDedupKey(m) = <<>> \/ mailboxDedupKey(msg[j]) # mailboxDedupKey(m)
        BY <2>1, <3>3
      <4> QED
        BY <2>2, <2>4, <3>3, <4>1
    <3>4. CASE i \in Made /\ j = n
      <4>1. mailboxDedupKey(m) = <<>> \/ mailboxDedupKey(msg[i]) # mailboxDedupKey(m)
        BY <2>1, <3>4
      <4> QED
        BY <2>2, <2>4, <3>4, <4>1
    <3> QED
      BY <2>2, <3>1, <3>2, <3>3, <3>4
  <2>5. \A i \in served' : /\ i \in Made' /\ mailboxDedupKey(msg'[i]) # <<>>
                           /\ Over(queue', rows', i) /\ i \notin HeldItems'
    BY <1>3, <2>2
  <2> QED
    BY <2>3, <2>4, <2>5 DEF Rounds, Over, IsQueued, mailboxDedupKey
<1> QED
  BY <1>4, <1>5
-----------------------------------------------------------------------------
(***************************************************************************)
(* The theorems.                                                           *)
(***************************************************************************)
\* A mailbox that has just been created satisfies the invariant.
LEMMA InitInv == Init => MailboxInv
<1> SUFFICES ASSUME Init PROVE MailboxInv
  OBVIOUS
<1>1. msg = <<>> /\ Len(msg) = 0 /\ msg \in Seq(Messages) /\ queue \in Seq(Items)
      /\ queue \in Seq(Made)
  BY EmptySeq DEF Init
<1>2. rows \in Tables(0) /\ rows \in [Items -> Row]
  BY DEF Init, Tables, NoRow, Row, Status
<1>3. TypeOK
  BY <1>1, <1>2, MailboxAssumption DEF Init, TypeOK
<1>4. Created
  BY <1>1, <1>2 DEF Init, Created
<1>5. KeysTaken /\ ItemsDiffer
  BY DEF Init, KeysTaken, ItemsDiffer, PastLock
<1> QED
  BY <1>3, <1>4, <1>5 DEF MailboxInv

\* The inductive invariant of the mailbox holds for all workers, messages and
\* bounds, with drops by identifier, failing INSERTs and crashes.
THEOREM MailboxInvariant == Spec => []MailboxInv
<1>1. Init => MailboxInv
  BY InitInv
<1>2. MailboxInv /\ [Next]_vars => MailboxInv'
  BY StepTypes, StepLocks DEF MailboxInv
<1> QED
  BY <1>1, <1>2, PTL DEF Spec

\* Type correctness of the mailbox and of the table behind it.
THEOREM MailboxTypes == Spec => []TypeOK
<1>1. MailboxInv => TypeOK
  BY DEF MailboxInv
<1> QED
  BY <1>1, MailboxInvariant, PTL

\* Two workers of the attention pool never work on one task, requirement,
\* conversation or session at a time: lockEntities of mailbox.ts takes all
\* keys of an item or none, and unlockEntities frees only its own.
THEOREM WorkersExcludeEachOther == Spec => []EntityExclusion
<1>1. ASSUME MailboxInv, NEW v \in Workers, NEW w \in Workers,
             v # w, stage[v] = "working", stage[w] = "working"
      PROVE  lockKeysFor(msg[hand[v]]) \intersect lockKeysFor(msg[hand[w]]) = {}
  <2>1. ~Serial
    <3>1. IsFiniteSet(Workers)
      BY MailboxAssumption
    <3>2. ASSUME Serial PROVE FALSE
      <4>1. \E x : Workers = {x}
        BY <3>1, <3>2, FS_Singleton DEF Serial
      <4> QED
        BY <1>1, <4>1
    <3> QED
      BY <3>2
  <2>2. hand[v] # hand[w]
    BY <1>1, <2>1 DEF MailboxInv, ItemsDiffer, PastLock
  <2>3. /\ \A k \in lockKeysFor(msg[hand[v]]) : locks[k] = hand[v]
        /\ \A k \in lockKeysFor(msg[hand[w]]) : locks[k] = hand[w]
    BY <1>1, <2>1 DEF MailboxInv, KeysTaken, PastLock
  <2> QED
    BY <2>2, <2>3
<1>2. MailboxInv => EntityExclusion
  BY <1>1 DEF EntityExclusion
<1> QED
  BY <1>2, MailboxInvariant, PTL

\* Where every item is, and what its row says, for all workers, messages and
\* bounds, with drops by identifier, failing INSERTs and crashes.
THEOREM PlaceInvariant == Spec => [](MailboxInv /\ PlaceInv)
<1>1. Init => MailboxInv /\ PlaceInv
  BY InitInv, InitPlaces
<1>2. MailboxInv /\ PlaceInv /\ [Next]_vars => (MailboxInv /\ PlaceInv)'
  <2> SUFFICES ASSUME MailboxInv, PlaceInv, [Next]_vars PROVE (MailboxInv /\ PlaceInv)'
    OBVIOUS
  <2>1. MailboxInv'
    BY StepTypes, StepLocks DEF MailboxInv
  <2>2. PlaceInv'
    BY <2>1, StepPlaces DEF MailboxInv
  <2> QED
    BY <2>1, <2>2
<1> QED
  BY <1>1, <1>2, PTL DEF Spec

\* What the table calls queued or processing is really going to be handled:
\* a turn that ends, times out, is preempted or cancelled, a shutdown, a merge
\* or a recovery leaves no row waiting without an entry or a worker, whatever
\* is dropped by identifier, fails to be saved or is killed.
THEOREM NothingIsLost == Spec => []NoItemLost
<1>1. ASSUME PlaceInv, NEW i \in Items
      PROVE  /\ rows[i].status = "queued" =>
                  IsQueued(queue, i) \/ Held(i) \/ rows[i].by = "dead"
             /\ rows[i].status = "processing" =>
                  Held(i) \/ msg[i].type \in {"human_chat", "a2a_message"}
  <2>1. RowSafe(i, rows[i], IsQueued(queue, i), i \in HeldItems)
    BY <1>1 DEF PlaceInv, Placed, RowsSafe
  <2>2. i \in HeldItems => Held(i)
    BY DEF HeldItems, Held, Busy
  <2> QED
    BY <2>1, <2>2 DEF RowSafe
<1>2. PlaceInv => NoItemLost
  BY <1>1 DEF NoItemLost
<1> QED
  BY <1>2, PlaceInvariant, PTL

\* An item is in the array at most once: requeue, putBack, resurfacing and
\* recovery insert without looking.  Only a drop by identifier of an item a
\* worker holds, and the same review round delivered again, can hand out an
\* item twice, so one of the two is excluded.
THEOREM EntriesAreUnique ==
  ASSUME Droppable = {} \/ \A m \in Messages : mailboxDedupKey(m) = <<>>
  PROVE  Spec => []NoDoubleEntry
<1>1. ASSUME MailboxInv, PlaceInv, NEW k \in 1..Len(queue), NEW n \in 1..Len(queue),
             queue[k] = queue[n]
      PROVE  k = n
  <2>1. queue[k] \in Made /\ IsQueued(queue, queue[k])
    BY <1>1, ElementOfSeq DEF PlaceInv, Placed, IsQueued
  <2>2. msg[queue[k]] \in Messages
    BY <1>1, <2>1, ElementOfSeq DEF MailboxInv, TypeOK, Made
  <2>3. Sure(queue[k])
    BY <2>2 DEF Sure
  <2> QED
    BY <1>1, <2>1, <2>3 DEF PlaceInv, Placed, OnePlace, AtMostOnce
<1>2. MailboxInv /\ PlaceInv => NoDoubleEntry
  BY <1>1 DEF NoDoubleEntry
<1> QED
  BY <1>2, PlaceInvariant, PTL

\* Strict items (executions, reviews, owed actions) that wait, or are left
\* behind by a crash, are not dropped, deferred or merged behind the back of
\* the worker that holds them: purge, consolidation, deliberation, the tools,
\* cleanup and recovery all pass them by.
THEOREM StrictItemsKept == Spec => StrictKept
<1>1. MailboxInv /\ PlaceInv /\ MailboxInv' /\ [Next]_vars =>
        [\A i \in Items :
           /\ rows[i].status \in {"queued", "processing"}
           /\ isStrictStateItem(msg[i]) /\ rows[i].age <= TTL(msg[i]) /\ i \notin Droppable
           /\ ~\E w \in Workers : hand[w] = i /\ stage[w] = "working"
           => /\ rows'[i].status \notin {"dropped", "deferred"}
              /\ rows'[i].status = "merged" =>
                   \E w \in Workers : Serial /\ stage[w] = "working"]_vars
  <2> SUFFICES ASSUME MailboxInv, PlaceInv, MailboxInv', [Next]_vars, NEW i \in Items,
                      rows[i].status \in {"queued", "processing"},
                      isStrictStateItem(msg[i]), rows[i].age <= TTL(msg[i]), i \notin Droppable,
                      ~\E w \in Workers : hand[w] = i /\ stage[w] = "working"
               PROVE  /\ rows'[i].status \notin {"dropped", "deferred"}
                      /\ rows'[i].status = "merged" =>
                           \E w \in Workers : Serial /\ stage[w] = "working"
    OBVIOUS
  <2>1. \/ Stays(rows', i, TakenAway)
        \/ rows'[i].status = "merged" /\ \E w \in Workers : Serial /\ stage[w] = "working"
    BY StepStays DEF MailboxInv
  <2> QED
    BY <2>1 DEF Stays, TakenAway
<1> QED
  BY <1>1, PlaceInvariant, PTL DEF Spec, StrictKept

\* The array stays in the order of priority that dequeue relies on, and no
\* merge has to move its survivor: whatever inserts, whatever loads, and a
\* change of priority, which finds the one entry it has to move because no
\* item is in the array twice.
THEOREM QueueStaysSorted ==
  ASSUME Droppable = {} \/ \A m \in Messages : mailboxDedupKey(m) = <<>>
  PROVE  Spec => []QueueSorted
<1>1. Init => Ordered(queue, prio)
  BY InitInv, EmptySeq DEF Init, Ordered, Sorted, MailboxInv, TypeOK
<1>2. MailboxInv /\ MailboxInv' /\ PlaceInv /\ Ordered(queue, prio) /\ [Next]_vars =>
        Ordered(queue, prio)'
  <2> SUFFICES ASSUME MailboxInv, MailboxInv', PlaceInv, Ordered(queue, prio), [Next]_vars
               PROVE  Ordered(queue', prio')
    BY DEF Ordered, Sorted
  <2>1. \A i \in Made : Sure(i)
    BY ElementOfSeq DEF MailboxInv, TypeOK, Made, Sure
  <2> QED
    BY <2>1, StepOrdered DEF MailboxInv
<1>3. Ordered(queue, prio) => QueueSorted
  BY DEF Ordered, Sorted, QueueSorted
<1> QED
  BY <1>1, <1>2, <1>3, PlaceInvariant, PTL DEF Spec

\* A review round that some worker has completed is not worked on again,
\* whatever is delivered twice, requeued, killed or recovered: findByDedupKey
\* finds the row, which nothing deletes, in the status it was left in.  The
\* two hypotheses are needed: a review that is dropped by identifier while a
\* worker has it is queued again when its round is delivered again, and
\* served twice; and so is one whose INSERT failed, which leaves no row to
\* find.
THEOREM RoundsServedOnce ==
  ASSUME Droppable = {}, ~SaveFaults
  PROVE  Spec => []RoundServedOnce
<1>1. Init => Rounds
  BY DEF Init, Rounds, Made
<1>2. MailboxInv /\ MailboxInv' /\ PlaceInv /\ Rounds /\ [Next]_vars => Rounds'
  BY StepRounds DEF MailboxInv
<1>3. MailboxInv /\ PlaceInv /\ Rounds => RoundServedOnce
  <2> SUFFICES ASSUME MailboxInv, PlaceInv, Rounds, NEW w \in Workers, NEW i \in served,
                      stage[w] = "working"
               PROVE  mailboxDedupKey(msg[hand[w]]) # mailboxDedupKey(msg[i])
    BY DEF RoundServedOnce
  <2>1. hand[w] \in Made /\ hand[w] \in HeldItems
    BY InHand DEF MailboxInv, Busy
  <2>2. i \in Made /\ mailboxDedupKey(msg[i]) # <<>> /\ i \notin HeldItems
    BY DEF Rounds
  <2> QED
    BY <2>1, <2>2 DEF Rounds
<1> QED
  BY <1>1, <1>2, <1>3, PlaceInvariant, PTL DEF Spec

=============================================================================
