-------------------------- MODULE ApprovalsProofs --------------------------
(***************************************************************************)
(* Proof that the decisions on approvals take effect once and as they were *)
(* given, for any number of approvals and any order of answers, changes of *)
(* the targets and crashes.                                                *)
(***************************************************************************)
EXTENDS Approvals, FiniteSetTheorems, TLAPS

Approval == [gate : Gates, status : ApprovalStatus, intent : Intents \union {"none"}, applied : BOOLEAN]
Holding == [approvals : Seq(Approval), waiters : SUBSET Ids, jobs : Seq(Jobs)]

\* The jobs that carry a decision out; with the claim there is one of them.
Work == {"port", "comment"}
Ops == {"resolve", "then", "route", "port", "comment"}

\* A job for approval a waits in the queue, or is the one that runs (X).
Has(h, X, ops, a) ==
  \/ \E i \in 1..Len(h.jobs) : h.jobs[i].op \in ops /\ h.jobs[i].a = a
  \/ \E x \in X : x.op \in ops /\ x.a = a

IsDecided(h, a) == h.approvals[a].status \notin {"pending", "cancelled"}
Does(h, a) == applyApprovalDecision(h.approvals[a].gate, h.approvals[a].intent)

\* Jobs and promises are about approvals that exist.
Shape(h, X) ==
  /\ h \in Holding /\ X \subseteq Jobs
  /\ Len(h.approvals) <= MaxApprovals
  /\ h.waiters \subseteq Known(h)
  /\ \A i \in 1..Len(h.jobs) : h.jobs[i].a \in Known(h)
  /\ \A x \in X : x.a \in Known(h)

\* A claimed decision has one job that carries it out, or has been carried out.
Once(h, X, F) ==
  /\ \A i, j \in 1..Len(h.jobs) :
       h.jobs[i].op \in Work /\ h.jobs[j].op \in Work /\ h.jobs[i].a = h.jobs[j].a => i = j
  /\ \A i \in 1..Len(h.jobs) : \A x \in X :
       h.jobs[i].op \in Work /\ x.op \in Work => h.jobs[i].a # x.a
  /\ \A a \in Ids : Len(F[a]) <= 1
  /\ \A a \in Ids : Has(h, X, Work, a) => F[a] = <<>>
  /\ \A a \in Known(h) : Has(h, X, Work, a) \/ F[a] # <<>> => h.approvals[a].applied
  /\ \A a \in Ids \ Known(h) : F[a] = <<>>

\* A recorded decision does not change, and only a recorded one is claimed.
Recorded(h, X, O) ==
  /\ \A a \in Known(h) : h.approvals[a].status = "pending" =>
       ~h.approvals[a].applied /\ O[a] = "none" /\ ~Has(h, X, Ops, a)
  /\ \A a \in Known(h) : IsDecided(h, a) =>
       h.approvals[a].intent \in Intents
       /\ h.approvals[a].status = intentToApprovalStatus(h.approvals[a].intent)
  /\ \A a \in Known(h) : h.approvals[a].applied => IsDecided(h, a)
  /\ \A a \in Known(h) : Has(h, X, {"comment"}, a) => Does(h, a) = "changes"
  /\ \A a \in Ids \ Known(h) : O[a] = "none"

\* What was done is what the approval says.
Said(h, F) ==
  \A a \in Known(h) : \A i \in 1..Len(F[a]) : IsDecided(h, a) /\ F[a][i] = Does(h, a)

\* The jobs of a withdrawn approval find its target out of every window.
Away(S, h, X) ==
  \A a \in Known(h) : h.approvals[a].status = "cancelled" /\ Has(h, X, Ops, a) =>
     S[targetOfApproval(h.approvals[a].gate)] \notin {"pending", "review"}

\* A decision has an outcome, was caught by a crash, or is on its way.
Routed(h, X, O, L) ==
  \A a \in Known(h) : O[a] = "none" /\ a \notin L =>
     /\ IsDecided(h, a) => Has(h, X, {"route"} \union Work, a)
     /\ h.approvals[a].applied => Has(h, X, Work, a)

\* The last gate of a pending task is open, was sent back, was caught by a
\* crash, or is about to move the task.
LastGate(h, X, O, L, g) ==
  /\ h.approvals[g].gate = "task"
  /\ \A b \in Known(h) : h.approvals[b].gate = "task" => b <= g
  /\ pendingOf(h, "task") \subseteq {g}
  /\ \/ h.approvals[g].status \in {"pending", "changes_requested"}
     \/ g \in L
     \/ /\ O[g] = "none"
        /\ \/ ~h.approvals[g].applied /\ Has(h, X, {"route"}, g)
           \/ Has(h, X, {"port"}, g)
Gate(S, h, X, O, L) ==
  /\ S.task = "absent" => \A a \in Known(h) : targetOfApproval(h.approvals[a].gate) # "task"
  /\ S.task = "pending" => \A a \in Known(h) : h.approvals[a].gate # "task_review"
  /\ S.task = "pending" => \E g \in Known(h) : LastGate(h, X, O, L, g)

HInv(S, h, X, O, F, L) ==
  /\ Shape(h, X) /\ Once(h, X, F) /\ Recorded(h, X, O) /\ Said(h, F)
  /\ Away(S, h, X) /\ Routed(h, X, O, L) /\ Gate(S, h, X, O, L)

Targets == {"task", "requirement"}
Kinds ==
  /\ status \in [Targets -> Status \union RequirementStatus \union {"absent"}]
  /\ outcome \in [Ids -> {"none", "applied", "out-of-window", "failed"}]
  /\ effects \in [Ids -> Seq({"approve", "reject", "changes"})]
  /\ lost \subseteq Ids

\* The inductive invariant.
Inv == Kinds /\ HInv(status, hitl, {}, outcome, effects, lost)

-----------------------------------------------------------------------------
(* What the operators of the model give. *)

\* The targets of the gates.
LEMMA GateTargets ==
  /\ \A g \in Gates : targetOfApproval(g) \in Targets
  /\ \A g \in Gates : targetOfApproval(g) = "task" <=> g \in {"task", "task_review"}
BY DEF Gates, targetOfApproval, Targets

\* The parts of the registry of approvals.
LEMMA HoldingParts ==
  ASSUME NEW h \in Holding
  PROVE  /\ h.approvals \in Seq(Approval) /\ h.jobs \in Seq(Jobs) /\ h.waiters \in SUBSET Ids
         /\ Len(h.approvals) \in Nat /\ Len(h.jobs) \in Nat
         /\ \A a \in Known(h) : h.approvals[a] \in Approval
         /\ \A i \in 1..Len(h.jobs) : h.jobs[i] \in Jobs
BY DEF Holding, Known

\* The approvals that exist are some of those there can be.
LEMMA KnownIds == ASSUME NEW h, NEW X, Shape(h, X) PROVE \A a \in Known(h) : a \in Ids
<1>1. Len(h.approvals) \in Nat /\ Len(h.approvals) <= MaxApprovals
  BY HoldingParts DEF Shape
<1> QED BY <1>1, ApprovalAssumption DEF Known, Ids

\* The fields of an approval and of a job.
LEMMA ApprovalFields ==
  /\ \A x \in Approval : /\ x.gate \in Gates /\ x.status \in ApprovalStatus
                         /\ x.intent \in Intents \union {"none"} /\ x.applied \in BOOLEAN
  /\ \A j \in Jobs : j.op \in Ops /\ j.a \in Ids
BY DEF Approval, Jobs, Ops

\* The registry with another queue.
LEMMA WithJobs ==
  ASSUME NEW h \in Holding, NEW J \in Seq(Jobs)
  PROVE  /\ [h EXCEPT !.jobs = J] \in Holding
         /\ [h EXCEPT !.jobs = J].approvals = h.approvals
         /\ [h EXCEPT !.jobs = J].waiters = h.waiters
         /\ [h EXCEPT !.jobs = J].jobs = J
<1>1. ASSUME NEW A, NEW B, NEW C, NEW g \in [approvals : A, waiters : B, jobs : C], NEW K \in C
      PROVE  /\ [g EXCEPT !.jobs = K] \in [approvals : A, waiters : B, jobs : C]
             /\ [g EXCEPT !.jobs = K].approvals = g.approvals
             /\ [g EXCEPT !.jobs = K].waiters = g.waiters
             /\ [g EXCEPT !.jobs = K].jobs = K
  OBVIOUS
<1>2. h \in [approvals : Seq(Approval), waiters : SUBSET Ids, jobs : Seq(Jobs)]
  BY DEF Holding
<1> QED BY <1>1, <1>2 DEF Holding

\* The registry with another approval.
LEMMA WithApproval ==
  ASSUME NEW h \in Holding, NEW a \in Known(h)
  PROVE  /\ [h EXCEPT !.approvals[a].applied = TRUE] \in Holding
         /\ [h EXCEPT !.approvals[a].applied = TRUE].jobs = h.jobs
         /\ [h EXCEPT !.approvals[a].applied = TRUE].waiters = h.waiters
         /\ [h EXCEPT !.approvals[a].applied = TRUE].approvals
              = [h.approvals EXCEPT ![a].applied = TRUE]
<1>1. ASSUME NEW A, NEW B, NEW C, NEW g \in [approvals : A, waiters : B, jobs : C], NEW K \in A
      PROVE  /\ [g EXCEPT !.approvals = K] \in [approvals : A, waiters : B, jobs : C]
             /\ [g EXCEPT !.approvals = K].approvals = K
             /\ [g EXCEPT !.approvals = K].waiters = g.waiters
             /\ [g EXCEPT !.approvals = K].jobs = g.jobs
  OBVIOUS
<1> DEFINE s == [h.approvals EXCEPT ![a].applied = TRUE]
<1>2. s \in Seq(Approval)
  <2>1. h.approvals \in Seq(Approval) /\ a \in 1..Len(h.approvals) /\ h.approvals[a] \in Approval
    BY HoldingParts DEF Known
  <2> DEFINE y == [h.approvals[a] EXCEPT !.applied = TRUE]
  <2>2. y \in Approval
    BY <2>1 DEF Approval
  <2>3. s = [h.approvals EXCEPT ![a] = y]
    OBVIOUS
  <2> HIDE DEF y, s
  <2> QED BY <2>1, <2>2, <2>3
<1>3. h \in [approvals : Seq(Approval), waiters : SUBSET Ids, jobs : Seq(Jobs)]
  BY DEF Holding
<1>4. [h EXCEPT !.approvals[a].applied = TRUE] = [h EXCEPT !.approvals = s]
  OBVIOUS
<1> HIDE DEF s
<1>5. /\ [h EXCEPT !.approvals = s] \in Holding
      /\ [h EXCEPT !.approvals = s].approvals = s
      /\ [h EXCEPT !.approvals = s].waiters = h.waiters
      /\ [h EXCEPT !.approvals = s].jobs = h.jobs
  BY <1>1, <1>2, <1>3 DEF Holding
<1> QED BY <1>4, <1>5 DEF s

\* The jobs of h are only kept in another place.
Requeued(h, k, X, Y) ==
  /\ k \in Holding /\ k.approvals = h.approvals /\ k.waiters \subseteq h.waiters /\ Y \subseteq Jobs
  /\ \A i \in 1..Len(k.jobs) : k.jobs[i].a \in Known(h)
  /\ \A y \in Y : y.a \in Known(h)
  /\ \A ops \in SUBSET Ops : \A a \in Ids : Has(k, Y, ops, a) <=> Has(h, X, ops, a)
  /\ \A i, j \in 1..Len(k.jobs) :
       k.jobs[i].op \in Work /\ k.jobs[j].op \in Work /\ k.jobs[i].a = k.jobs[j].a => i = j
  /\ \A i \in 1..Len(k.jobs) : \A y \in Y :
       k.jobs[i].op \in Work /\ y.op \in Work => k.jobs[i].a # y.a

\* The invariant does not look at where a job is kept.
LEMMA RequeuedInv ==
  ASSUME NEW S, NEW h, NEW k, NEW X, NEW Y, NEW O, NEW F, NEW L,
         HInv(S, h, X, O, F, L), Requeued(h, k, X, Y)
  PROVE  HInv(S, k, Y, O, F, L)
<1>0. /\ k \in Holding /\ k.approvals = h.approvals /\ k.waiters \subseteq h.waiters /\ Y \subseteq Jobs
      /\ \A i \in 1..Len(k.jobs) : k.jobs[i].a \in Known(h)
      /\ \A y \in Y : y.a \in Known(h)
      /\ \A ops \in SUBSET Ops : \A a \in Ids : Has(k, Y, ops, a) <=> Has(h, X, ops, a)
      /\ \A i, j \in 1..Len(k.jobs) :
           k.jobs[i].op \in Work /\ k.jobs[j].op \in Work /\ k.jobs[i].a = k.jobs[j].a => i = j
      /\ \A i \in 1..Len(k.jobs) : \A y \in Y :
           k.jobs[i].op \in Work /\ y.op \in Work => k.jobs[i].a # y.a
  BY DEF Requeued
<1>1. /\ Known(k) = Known(h) /\ pendingOf(k, "task") = pendingOf(h, "task")
      /\ \A a \in Known(h) : (IsDecided(k, a) <=> IsDecided(h, a)) /\ Does(k, a) = Does(h, a)
  BY <1>0 DEF Known, pendingOf, IsDecided, Does
<1>2. \A a \in Known(h) : a \in Ids
  BY KnownIds DEF HInv
<1>3. /\ Work \in SUBSET Ops /\ Ops \in SUBSET Ops /\ {"comment"} \in SUBSET Ops
      /\ {"route"} \union Work \in SUBSET Ops /\ {"route"} \in SUBSET Ops /\ {"port"} \in SUBSET Ops
  BY DEF Work, Ops
<1> DEFINE Same(ops) == \A a \in Ids : Has(k, Y, ops, a) <=> Has(h, X, ops, a)
<1>4. /\ Same(Work) /\ Same(Ops) /\ Same({"comment"}) /\ Same({"route"} \union Work)
      /\ Same({"route"}) /\ Same({"port"})
  BY <1>0, <1>3
<1> HIDE DEF Same
<1>5. Shape(k, Y)
  BY <1>0, <1>1 DEF HInv, Shape
<1>6. Once(k, Y, F)
  <2>1. /\ \A a \in Ids : Has(k, Y, Work, a) <=> Has(h, X, Work, a)
    BY <1>4 DEF Same
  <2>2. /\ \A a \in Ids : Len(F[a]) <= 1
        /\ \A a \in Ids : Has(h, X, Work, a) => F[a] = <<>>
        /\ \A a \in Known(h) : Has(h, X, Work, a) \/ F[a] # <<>> => h.approvals[a].applied
        /\ \A a \in Ids \ Known(h) : F[a] = <<>>
    BY DEF HInv, Once
  <2> QED BY <1>0, <1>1, <1>2, <2>1, <2>2 DEF Once
<1>7. Recorded(k, Y, O)
  <2>1. \A a \in Ids : /\ Has(k, Y, Ops, a) <=> Has(h, X, Ops, a)
                       /\ Has(k, Y, {"comment"}, a) <=> Has(h, X, {"comment"}, a)
    BY <1>4 DEF Same
  <2> QED BY <1>0, <1>1, <1>2, <2>1 DEF HInv, Recorded
<1>8. Said(k, F)
  BY <1>1 DEF HInv, Said
<1>9. Away(S, k, Y)
  BY <1>0, <1>1, <1>2, <1>4 DEF HInv, Away, Same
<1>10. Routed(k, Y, O, L)
  BY <1>0, <1>1, <1>2, <1>4 DEF HInv, Routed, Same
<1>11. Gate(S, k, Y, O, L)
  <2>1. ASSUME NEW g \in Known(h), LastGate(h, X, O, L, g) PROVE LastGate(k, Y, O, L, g)
    BY <1>0, <1>1, <1>2, <1>4, <2>1 DEF LastGate, Same
  <2> QED BY <1>0, <1>1, <2>1 DEF HInv, Gate
<1> QED BY <1>5, <1>6, <1>7, <1>8, <1>9, <1>10, <1>11 DEF HInv

\* The next job is taken from the queue.
LEMMA TakeInv ==
  ASSUME NEW S, NEW h, NEW O, NEW F, NEW L, HInv(S, h, {}, O, F, L), h.jobs # <<>>
  PROVE  HInv(S, Rest(h), {Head(h.jobs)}, O, F, L)
<1> DEFINE k == Rest(h)
           x == Head(h.jobs)
<1>1. h \in Holding /\ h.jobs \in Seq(Jobs)
  BY HoldingParts DEF HInv, Shape
<1>2. k = [h EXCEPT !.jobs = Tail(h.jobs)]
  BY DEF Rest
<1>3. k \in Holding /\ k.approvals = h.approvals /\ k.waiters = h.waiters /\ k.jobs = Tail(h.jobs)
  <2>1. Tail(h.jobs) \in Seq(Jobs)
    BY <1>1
  <2> HIDE DEF k
  <2> QED BY <1>1, <1>2, <2>1, WithJobs
<1>4. /\ Len(h.jobs) \in Nat \ {0} /\ Len(k.jobs) = Len(h.jobs) - 1
      /\ \A i \in 1..Len(k.jobs) : k.jobs[i] = h.jobs[i + 1] /\ i + 1 \in 1..Len(h.jobs)
      /\ x = h.jobs[1] /\ x \in Jobs /\ 1 \in 1..Len(h.jobs)
  BY <1>1, <1>3
<1> HIDE DEF k, x
<1>5. \A i \in 1..Len(h.jobs) : i = 1 \/ (i - 1 \in 1..Len(k.jobs) /\ h.jobs[i] = k.jobs[i - 1])
  BY <1>4
<1>6. /\ \A i \in 1..Len(h.jobs) : h.jobs[i].a \in Known(h)
      /\ \A i, j \in 1..Len(h.jobs) :
           h.jobs[i].op \in Work /\ h.jobs[j].op \in Work /\ h.jobs[i].a = h.jobs[j].a => i = j
  BY DEF HInv, Shape, Once
<1>7. \A ops \in SUBSET Ops : \A a \in Ids : Has(k, {x}, ops, a) <=> Has(h, {}, ops, a)
  <2> TAKE ops \in SUBSET Ops
  <2> TAKE a \in Ids
  <2>1. ASSUME Has(k, {x}, ops, a) PROVE Has(h, {}, ops, a)
    BY <1>4, <2>1 DEF Has
  <2>2. ASSUME Has(h, {}, ops, a) PROVE Has(k, {x}, ops, a)
    <3>1. PICK i \in 1..Len(h.jobs) : h.jobs[i].op \in ops /\ h.jobs[i].a = a
      BY <2>2 DEF Has
    <3>2. CASE i = 1
      BY <1>4, <3>1, <3>2 DEF Has
    <3>3. CASE i # 1
      <4>1. i - 1 \in 1..Len(k.jobs) /\ h.jobs[i] = k.jobs[i - 1]
        BY <1>5, <3>3
      <4> QED BY <3>1, <4>1 DEF Has
    <3> QED BY <3>2, <3>3
  <2> QED BY <2>1, <2>2
<1>8. \A i, j \in 1..Len(k.jobs) :
        k.jobs[i].op \in Work /\ k.jobs[j].op \in Work /\ k.jobs[i].a = k.jobs[j].a => i = j
  <2> TAKE i, j \in 1..Len(k.jobs)
  <2>1. k.jobs[i] = h.jobs[i + 1] /\ k.jobs[j] = h.jobs[j + 1]
        /\ i + 1 \in 1..Len(h.jobs) /\ j + 1 \in 1..Len(h.jobs)
    BY <1>4
  <2>2. i + 1 = j + 1 => i = j
    OBVIOUS
  <2> QED BY <1>6, <2>1, <2>2
<1>9. \A i \in 1..Len(k.jobs) : k.jobs[i].op \in Work /\ x.op \in Work => k.jobs[i].a # x.a
  <2> TAKE i \in 1..Len(k.jobs)
  <2>1. k.jobs[i] = h.jobs[i + 1] /\ i + 1 \in 1..Len(h.jobs) /\ i + 1 # 1
    BY <1>4
  <2> QED BY <1>4, <1>6, <2>1
<1>10. (\A i \in 1..Len(k.jobs) : k.jobs[i].a \in Known(h)) /\ x.a \in Known(h)
  BY <1>4, <1>6
<1>11. Requeued(h, k, {}, {x})
  BY <1>3, <1>4, <1>7, <1>8, <1>9, <1>10 DEF Requeued
<1>12. HInv(S, k, {x}, O, F, L)
  BY <1>11, RequeuedInv
<1> QED BY <1>12 DEF k, x

\* A job is put into the queue, at its end or at its front.
LEMMA PutInv ==
  ASSUME NEW S, NEW h, NEW k, NEW x, NEW O, NEW F, NEW L, HInv(S, h, {x}, O, F, L),
         \/ k = [h EXCEPT !.jobs = Append(@, x)]
         \/ k = [h EXCEPT !.jobs = <<x>> \o @]
  PROVE  HInv(S, k, {}, O, F, L)
<1>1. h \in Holding /\ h.jobs \in Seq(Jobs) /\ x \in Jobs /\ x.a \in Known(h)
  BY HoldingParts DEF HInv, Shape
<1> DEFINE n == Len(h.jobs)
<1>2. /\ k \in Holding /\ k.approvals = h.approvals /\ k.waiters = h.waiters
      /\ k.jobs = Append(h.jobs, x) \/ k.jobs = <<x>> \o h.jobs
  <2>1. Append(h.jobs, x) \in Seq(Jobs) /\ <<x>> \o h.jobs \in Seq(Jobs)
    BY <1>1
  <2>2. CASE k = [h EXCEPT !.jobs = Append(@, x)]
    BY <1>1, <2>1, <2>2, WithJobs
  <2>3. CASE k = [h EXCEPT !.jobs = <<x>> \o @]
    BY <1>1, <2>1, <2>3, WithJobs
  <2> QED BY <2>2, <2>3
<1>3. n \in Nat /\ Len(k.jobs) = n + 1
  BY <1>1, <1>2
<1>4. \/ k.jobs[n + 1] = x /\ \A i \in 1..n : k.jobs[i] = h.jobs[i]
      \/ k.jobs[1] = x /\ \A i \in 2..(n + 1) : k.jobs[i] = h.jobs[i - 1]
  <2>1. CASE k.jobs = Append(h.jobs, x)
    BY <1>1, <2>1
  <2>2. CASE k.jobs = <<x>> \o h.jobs
    BY <1>1, <2>2
  <2> QED BY <1>2, <2>1, <2>2
<1> DEFINE Placed(p, f) ==
             /\ k.jobs[p] = x
             /\ \A i \in 1..(n + 1) : i # p => f[i] \in 1..n /\ k.jobs[i] = h.jobs[f[i]]
             /\ \A i, j \in 1..(n + 1) : i # p /\ j # p /\ f[i] = f[j] => i = j
             /\ \A i \in 1..n : \E j \in 1..(n + 1) : j # p /\ f[j] = i
<1>5. PICK p \in 1..(n + 1), f \in [1..(n + 1) -> 0..n] : Placed(p, f)
  <2>1. CASE k.jobs[n + 1] = x /\ \A i \in 1..n : k.jobs[i] = h.jobs[i]
    <3> DEFINE g == [i \in 1..(n + 1) |-> IF i = n + 1 THEN 0 ELSE i]
    <3>1. g \in [1..(n + 1) -> 0..n] /\ n + 1 \in 1..(n + 1)
      BY <1>3
    <3>2. \A i \in 1..(n + 1) : i # n + 1 => g[i] = i /\ i \in 1..n
      BY <1>3
    <3>3. \A i \in 1..n : i \in 1..(n + 1) /\ i # n + 1
      BY <1>3
    <3> HIDE DEF g
    <3>4. Placed(n + 1, g)
      BY <2>1, <3>2, <3>3
    <3> HIDE DEF Placed
    <3> QED BY <3>1, <3>4
  <2>2. CASE k.jobs[1] = x /\ \A i \in 2..(n + 1) : k.jobs[i] = h.jobs[i - 1]
    <3> DEFINE g == [i \in 1..(n + 1) |-> i - 1]
    <3>1. g \in [1..(n + 1) -> 0..n] /\ 1 \in 1..(n + 1)
      BY <1>3
    <3>2. \A i \in 1..(n + 1) : i # 1 => g[i] = i - 1 /\ i - 1 \in 1..n /\ i \in 2..(n + 1)
      BY <1>3
    <3>3. \A i \in 1..n : i + 1 \in 1..(n + 1) /\ i + 1 # 1 /\ g[i + 1] = i
      BY <1>3
    <3> HIDE DEF g
    <3>4. \A i \in 1..(n + 1) : i # 1 => g[i] \in 1..n /\ k.jobs[i] = h.jobs[g[i]]
      BY <2>2, <3>2
    <3>5. \A i, j \in 1..(n + 1) : i # 1 /\ j # 1 /\ g[i] = g[j] => i = j
      BY <3>2
    <3>6. \A i \in 1..n : \E j \in 1..(n + 1) : j # 1 /\ g[j] = i
      BY <3>3
    <3>7. Placed(1, g)
      BY <2>2, <3>4, <3>5, <3>6
    <3> HIDE DEF Placed
    <3> QED BY <3>1, <3>7
  <2> QED BY <1>4, <2>1, <2>2
<1>6. /\ \A i \in 1..n : h.jobs[i].a \in Known(h)
      /\ \A i, j \in 1..n :
           h.jobs[i].op \in Work /\ h.jobs[j].op \in Work /\ h.jobs[i].a = h.jobs[j].a => i = j
      /\ \A i \in 1..n : h.jobs[i].op \in Work /\ x.op \in Work => h.jobs[i].a # x.a
  BY DEF HInv, Shape, Once
<1> HIDE DEF n
<1>7. \A ops \in SUBSET Ops : \A a \in Ids : Has(k, {}, ops, a) <=> Has(h, {x}, ops, a)
  <2> TAKE ops \in SUBSET Ops
  <2> TAKE a \in Ids
  <2>1. Has(k, {}, ops, a) <=> \E i \in 1..(n + 1) : k.jobs[i].op \in ops /\ k.jobs[i].a = a
    BY <1>3 DEF Has
  <2>2. Has(h, {x}, ops, a) <=> \/ \E i \in 1..n : h.jobs[i].op \in ops /\ h.jobs[i].a = a
                                \/ x.op \in ops /\ x.a = a
    BY DEF Has, n
  <2> QED BY <1>5, <2>1, <2>2
<1>8. \A i, j \in 1..(n + 1) :
        k.jobs[i].op \in Work /\ k.jobs[j].op \in Work /\ k.jobs[i].a = k.jobs[j].a => i = j
  BY <1>5, <1>6
<1>9. \A i \in 1..(n + 1) : k.jobs[i].a \in Known(h)
  BY <1>1, <1>5, <1>6
<1>10. Requeued(h, k, {x}, {})
  BY <1>2, <1>3, <1>7, <1>8, <1>9 DEF Requeued
<1> QED BY <1>10, RequeuedInv

-----------------------------------------------------------------------------
(* What a running job may turn into. *)

\* Which jobs there are for an approval, when the running one changes.
LEMMA HasRunning ==
  ASSUME NEW h, NEW x, NEW X, NEW ops, NEW a
  PROVE  /\ Has(h, {x}, ops, a) <=> Has(h, {}, ops, a) \/ (x.op \in ops /\ x.a = a)
         /\ Has(h, {}, ops, a) => Has(h, X, ops, a)
BY DEF Has

\* The running job is about an approval that exists.
LEMMA RunningKnown ==
  ASSUME NEW S, NEW h, NEW x, NEW O, NEW F, NEW L, HInv(S, h, {x}, O, F, L)
  PROVE  x.a \in Known(h) /\ x.a \in Ids /\ \A a \in Known(h) : a \in Ids
<1>1. Shape(h, {x})
  BY DEF HInv
<1>2. x.a \in Known(h)
  BY <1>1 DEF Shape
<1> QED BY <1>1, <1>2, KnownIds

\* A job that carries nothing out turns into the next one like it, or ends.
LEMMA PassInv ==
  ASSUME NEW S, NEW h, NEW x, NEW Y, NEW O, NEW F, NEW L, HInv(S, h, {x}, O, F, L),
         x.op \in {"resolve", "then"},
         Y = {} \/ \E y \in Jobs : Y = {y} /\ y.op = "then" /\ y.a = x.a
  PROVE  HInv(S, h, Y, O, F, L)
<1>1. \A ops, a : Has(h, Y, ops, a) <=> Has(h, {}, ops, a) \/ \E y \in Y : y.op \in ops /\ y.a = a
  BY DEF Has
<1>2. \A ops, a : Has(h, {x}, ops, a) <=> Has(h, {}, ops, a) \/ (x.op \in ops /\ x.a = a)
  BY HasRunning
<1>3. /\ x.op \notin Work /\ x.op \in Ops /\ x.op # "route" /\ x.op # "port" /\ x.op # "comment"
      /\ \A y \in Y : y.op \notin Work /\ y.op \in Ops /\ y.op # "route" /\ y.op # "port"
                      /\ y.op # "comment" /\ y.a = x.a
  BY DEF Work, Ops
<1>4. /\ \A a : Has(h, Y, Work, a) <=> Has(h, {x}, Work, a)
      /\ \A a : Has(h, Y, {"comment"}, a) <=> Has(h, {x}, {"comment"}, a)
      /\ \A a : Has(h, Y, {"route"} \union Work, a) <=> Has(h, {x}, {"route"} \union Work, a)
      /\ \A a : Has(h, Y, {"route"}, a) <=> Has(h, {x}, {"route"}, a)
      /\ \A a : Has(h, Y, {"port"}, a) <=> Has(h, {x}, {"port"}, a)
      /\ \A a : Has(h, Y, Ops, a) => Has(h, {x}, Ops, a)
  BY <1>1, <1>2, <1>3
<1>5. Shape(h, Y)
  BY <1>3 DEF HInv, Shape
<1>6. Once(h, Y, F)
  BY <1>3, <1>4 DEF HInv, Once
<1>7. Recorded(h, Y, O)
  BY <1>4 DEF HInv, Recorded
<1>8. Said(h, F)
  BY DEF HInv
<1>9. Away(S, h, Y)
  BY <1>4 DEF HInv, Away
<1>10. Routed(h, Y, O, L)
  BY <1>4 DEF HInv, Routed
<1>11. Gate(S, h, Y, O, L)
  <2>1. ASSUME NEW g \in Known(h), LastGate(h, {x}, O, L, g) PROVE LastGate(h, Y, O, L, g)
    BY <1>4, <2>1 DEF LastGate
  <2> QED BY <2>1 DEF HInv, Gate
<1> QED BY <1>5, <1>6, <1>7, <1>8, <1>9, <1>10, <1>11 DEF HInv

\* Asking for changes leaves the port for a comment.
LEMMA CommentPending ==
  ASSUME NEW S, NEW h, NEW x, NEW y \in Jobs, NEW O, NEW F, NEW L, HInv(S, h, {x}, O, F, L),
         x.op = "port", y.op = "comment", y.a = x.a, Does(h, x.a) = "changes"
  PROVE  HInv(S, h, {y}, O, F, L)
<1>0. x.a \in Known(h) /\ x.a \in Ids
  BY RunningKnown
<1>1. \A ops, a : Has(h, {y}, ops, a) <=> Has(h, {}, ops, a) \/ (y.op \in ops /\ y.a = a)
  BY HasRunning
<1>2. \A ops, a : Has(h, {x}, ops, a) <=> Has(h, {}, ops, a) \/ (x.op \in ops /\ x.a = a)
  BY HasRunning
<1>3. /\ \A a : Has(h, {y}, Work, a) <=> Has(h, {x}, Work, a)
      /\ \A a : Has(h, {y}, {"comment"}, a) <=> Has(h, {x}, {"comment"}, a) \/ a = x.a
      /\ \A a : Has(h, {y}, {"route"} \union Work, a) <=> Has(h, {x}, {"route"} \union Work, a)
      /\ \A a : Has(h, {y}, {"route"}, a) <=> Has(h, {x}, {"route"}, a)
      /\ \A a : a # x.a => (Has(h, {y}, {"port"}, a) <=> Has(h, {x}, {"port"}, a))
      /\ \A a : Has(h, {y}, Ops, a) <=> Has(h, {x}, Ops, a)
  BY <1>1, <1>2 DEF Work, Ops
<1>5. Shape(h, {y})
  BY DEF HInv, Shape
<1>6. Once(h, {y}, F)
  BY <1>3 DEF HInv, Once, Work
<1>7. Recorded(h, {y}, O)
  BY <1>3 DEF HInv, Recorded
<1>8. Said(h, F)
  BY DEF HInv
<1>9. Away(S, h, {y})
  BY <1>3 DEF HInv, Away
<1>10. Routed(h, {y}, O, L)
  BY <1>3 DEF HInv, Routed
<1>11. Gate(S, h, {y}, O, L)
  <2>1. ASSUME NEW g \in Known(h), LastGate(h, {x}, O, L, g) PROVE LastGate(h, {y}, O, L, g)
    <3>1. CASE g # x.a
      BY <1>3, <2>1, <3>1 DEF LastGate
    <3>2. CASE g = x.a
      <4>1. h.approvals[g].gate = "task" /\ h.approvals[g].applied
        <5>1. Has(h, {x}, Work, g)
          BY <1>2, <3>2 DEF Work
        <5> QED BY <2>1, <5>1 DEF LastGate, HInv, Once
      <4>2. h.approvals[g].intent = "request_changes"
        <5>1. h.approvals[g].intent \in Intents
          BY <4>1 DEF HInv, Recorded
        <5> QED BY <3>2, <4>1, <5>1 DEF Does, applyApprovalDecision, Intents
      <4>3. h.approvals[g].status = "changes_requested"
        BY <4>1, <4>2 DEF HInv, Recorded, intentToApprovalStatus
      <4> QED BY <1>3, <2>1, <4>3 DEF LastGate
    <3> QED BY <3>1, <3>2
  <2> QED BY <2>1 DEF HInv, Gate
<1> QED BY <1>5, <1>6, <1>7, <1>8, <1>9, <1>10, <1>11 DEF HInv

\* A decision that was carried out, or could not be.
LEMMA DoneInv ==
  ASSUME NEW S, NEW h, NEW x, NEW O, NEW F, NEW L, NEW P, NEW G, HInv(S, h, {x}, O, F, L),
         x.op \in Work,
         P[x.a] # "none", \A a \in Ids \ {x.a} : P[a] = O[a],
         \A a \in Ids \ {x.a} : G[a] = F[a],
         G[x.a] = F[x.a] \/ G[x.a] = Append(F[x.a], Does(h, x.a)),
         S.task = "pending" /\ h.approvals[x.a].gate = "task" =>
           h.approvals[x.a].status = "changes_requested"
  PROVE  HInv(S, h, {}, P, G, L)
<1>0. x.a \in Known(h) /\ x.a \in Ids /\ \A a \in Known(h) : a \in Ids
  BY RunningKnown
<1>2. \A ops, a : Has(h, {x}, ops, a) <=> Has(h, {}, ops, a) \/ (x.op \in ops /\ x.a = a)
  BY HasRunning
<1>3. /\ \A ops, a : a # x.a => (Has(h, {}, ops, a) <=> Has(h, {x}, ops, a))
      /\ \A ops, a : Has(h, {}, ops, a) => Has(h, {x}, ops, a)
      /\ Has(h, {x}, Work, x.a)
      /\ ~Has(h, {}, Work, x.a)
  <2>1. ~Has(h, {}, Work, x.a)
    BY DEF HInv, Once, Has
  <2> QED BY <1>2, <2>1
<1>4. F[x.a] = <<>> /\ h.approvals[x.a].applied /\ IsDecided(h, x.a)
  BY <1>0, <1>3 DEF HInv, Once, Recorded
<1>5. Len(G[x.a]) <= 1 /\ \A i \in 1..Len(G[x.a]) : G[x.a][i] = Does(h, x.a)
  <2>1. CASE G[x.a] = F[x.a]
    BY <1>4, <2>1
  <2>2. CASE G[x.a] = Append(<<>>, Does(h, x.a))
    <3> DEFINE v == Does(h, x.a)
    <3>1. ASSUME NEW u PROVE Len(Append(<<>>, u)) = 1 /\ Append(<<>>, u)[1] = u
      OBVIOUS
    <3>2. G[x.a] = Append(<<>>, v)
      BY <2>2
    <3> HIDE DEF v
    <3>3. Len(G[x.a]) = 1 /\ G[x.a][1] = v
      BY <3>1, <3>2
    <3> QED BY <3>3 DEF v
  <2> QED BY <1>4, <2>1, <2>2
<1>6. Shape(h, {})
  BY DEF HInv, Shape
<1>7. Once(h, {}, G)
  BY <1>0, <1>3, <1>4, <1>5 DEF HInv, Once
<1>8. Recorded(h, {}, P)
  BY <1>0, <1>3, <1>4 DEF HInv, Recorded, IsDecided
<1>9. Said(h, G)
  BY <1>0, <1>4, <1>5 DEF HInv, Said
<1>10. Away(S, h, {})
  BY <1>3 DEF HInv, Away
<1>11. Routed(h, {}, P, L)
  BY <1>0, <1>3 DEF HInv, Routed
<1>12. Gate(S, h, {}, P, L)
  <2>1. ASSUME NEW g \in Known(h), LastGate(h, {x}, O, L, g), S.task = "pending"
        PROVE  LastGate(h, {}, P, L, g)
    <3>1. CASE g # x.a
      BY <1>0, <1>3, <2>1, <3>1 DEF LastGate
    <3>2. CASE g = x.a
      BY <2>1, <3>2 DEF LastGate
    <3> QED BY <3>1, <3>2
  <2> QED BY <2>1 DEF HInv, Gate
<1> QED BY <1>6, <1>7, <1>8, <1>9, <1>10, <1>11, <1>12 DEF HInv

-----------------------------------------------------------------------------
(* The applier. *)

\* X is the job that brings a decision to the applier, or nothing, when the
\* request that records the decision does.
Brings(h, X, a) ==
  /\ a \in Known(h)
  /\ X = {} \/ \E x \in Jobs : X = {x} /\ x.op \in {"route", "then"} /\ x.a = a

\* It carries nothing out, and is about no other approval.
LEMMA BringsJobs ==
  ASSUME NEW h, NEW X, NEW a, Brings(h, X, a)
  PROVE  /\ \A ops, b : Has(h, X, ops, b) <=> Has(h, {}, ops, b) \/ \E x \in X : x.op \in ops /\ x.a = b
         /\ \A b : Has(h, X, Work, b) <=> Has(h, {}, Work, b)
         /\ \A b : Has(h, X, {"comment"}, b) <=> Has(h, {}, {"comment"}, b)
         /\ \A b : Has(h, X, {"port"}, b) <=> Has(h, {}, {"port"}, b)
         /\ \A ops, b : b # a => (Has(h, X, ops, b) <=> Has(h, {}, ops, b))
         /\ \A ops, b : Has(h, {}, ops, b) => Has(h, X, ops, b)
BY DEF Brings, Has, Work

\* A decision that comes too late.
LEMMA LateInv ==
  ASSUME NEW S, NEW h, NEW X, NEW a, NEW O, NEW F, NEW L, NEW P, HInv(S, h, X, O, F, L),
         Brings(h, X, a), h.approvals[a].status # "pending",
         P[a] # "none", \A b \in Ids \ {a} : P[b] = O[b],
         S[targetOfApproval(h.approvals[a].gate)] # window(h.approvals[a].gate)
  PROVE  HInv(S, h, {}, P, F, L)
<1>0. a \in Known(h) /\ a \in Ids /\ \A b \in Known(h) : b \in Ids
  BY KnownIds DEF HInv, Brings
<1>1. /\ \A b : Has(h, X, Work, b) <=> Has(h, {}, Work, b)
      /\ \A ops, b : b # a => (Has(h, X, ops, b) <=> Has(h, {}, ops, b))
      /\ \A ops, b : Has(h, {}, ops, b) => Has(h, X, ops, b)
  BY BringsJobs
<1>2. Shape(h, {})
  BY DEF HInv, Shape
<1>3. Once(h, {}, F)
  BY <1>1 DEF HInv, Once
<1>4. Recorded(h, {}, P)
  BY <1>0, <1>1 DEF HInv, Recorded
<1>5. Said(h, F) /\ Away(S, h, {})
  BY <1>1 DEF HInv, Away
<1>6. Routed(h, {}, P, L)
  BY <1>0, <1>1 DEF HInv, Routed
<1>7. Gate(S, h, {}, P, L)
  <2>1. ASSUME NEW g \in Known(h), LastGate(h, X, O, L, g), S.task = "pending"
        PROVE  LastGate(h, {}, P, L, g)
    <3>1. CASE g # a
      BY <1>0, <1>1, <2>1, <3>1 DEF LastGate
    <3>2. CASE g = a
      BY <2>1, <3>2 DEF LastGate, targetOfApproval, window
    <3> QED BY <3>1, <3>2
  <2> QED BY <2>1 DEF HInv, Gate
<1> QED BY <1>2, <1>3, <1>4, <1>5, <1>6, <1>7 DEF HInv

\* A decision that another job has claimed.
LEMMA ClaimedInv ==
  ASSUME NEW S, NEW h, NEW X, NEW a, NEW O, NEW F, NEW L, HInv(S, h, X, O, F, L),
         Brings(h, X, a), h.approvals[a].applied
  PROVE  HInv(S, h, {}, O, F, L)
<1>0. a \in Known(h) /\ a \in Ids /\ \A b \in Known(h) : b \in Ids
  BY KnownIds DEF HInv, Brings
<1>1. /\ \A b : Has(h, X, Work, b) <=> Has(h, {}, Work, b)
      /\ \A b : Has(h, X, {"port"}, b) <=> Has(h, {}, {"port"}, b)
      /\ \A ops, b : b # a => (Has(h, X, ops, b) <=> Has(h, {}, ops, b))
      /\ \A ops, b : Has(h, {}, ops, b) => Has(h, X, ops, b)
  BY BringsJobs
<1>2. Shape(h, {})
  BY DEF HInv, Shape
<1>3. Once(h, {}, F)
  BY <1>1 DEF HInv, Once
<1>4. Recorded(h, {}, O)
  BY <1>0, <1>1 DEF HInv, Recorded
<1>5. Said(h, F) /\ Away(S, h, {})
  BY <1>1 DEF HInv, Away
<1>6. Routed(h, {}, O, L)
  <2>1. \A b : Has(h, {}, Work, b) => Has(h, {}, {"route"} \union Work, b)
    BY DEF Has
  <2> QED BY <1>0, <1>1, <2>1 DEF HInv, Routed
<1>7. Gate(S, h, {}, O, L)
  <2>1. ASSUME NEW g \in Known(h), LastGate(h, X, O, L, g) PROVE LastGate(h, {}, O, L, g)
    BY <1>0, <1>1, <2>1 DEF LastGate
  <2> QED BY <2>1 DEF HInv, Gate
<1> QED BY <1>2, <1>3, <1>4, <1>5, <1>6, <1>7 DEF HInv

\* A decision is claimed, and its port is the next job.
LEMMA ClaimInv ==
  ASSUME NEW S, NEW h, NEW X, NEW a, NEW O, NEW F, NEW L, HInv(S, h, X, O, F, L),
         Brings(h, X, a), ~h.approvals[a].applied, IsDecided(h, a),
         NEW k \in Holding, k.jobs = h.jobs, k.waiters = h.waiters,
         k.approvals = [h.approvals EXCEPT ![a].applied = TRUE],
         NEW y \in Jobs, y.op = "port", y.a = a
  PROVE  HInv(S, k, {y}, O, F, L)
<1>0. a \in Known(h) /\ a \in Ids /\ \A b \in Known(h) : b \in Ids
  BY KnownIds DEF HInv, Brings
<1>1. /\ \A b : Has(h, X, Work, b) <=> Has(h, {}, Work, b)
      /\ \A b : Has(h, X, {"comment"}, b) <=> Has(h, {}, {"comment"}, b)
      /\ \A b : Has(h, X, {"port"}, b) <=> Has(h, {}, {"port"}, b)
      /\ \A ops, b : b # a => (Has(h, X, ops, b) <=> Has(h, {}, ops, b))
  BY BringsJobs
<1>2. h.approvals \in Seq(Approval)
  BY HoldingParts DEF HInv, Shape
<1>3. /\ Known(k) = Known(h)
      /\ \A b \in Known(h) : b # a => k.approvals[b] = h.approvals[b]
      /\ k.approvals[a].applied
      /\ \A b \in Known(h) : /\ k.approvals[b].gate = h.approvals[b].gate
                             /\ k.approvals[b].status = h.approvals[b].status
                             /\ k.approvals[b].intent = h.approvals[b].intent
  BY <1>0, <1>2 DEF Known, Approval
<1>4. /\ \A b \in Known(h) : (IsDecided(k, b) <=> IsDecided(h, b)) /\ Does(k, b) = Does(h, b)
      /\ pendingOf(k, "task") = pendingOf(h, "task")
  BY <1>3 DEF IsDecided, Does, pendingOf
<1>5. /\ \A ops, b : Has(k, {y}, ops, b) <=> Has(h, {}, ops, b) \/ (y.op \in ops /\ y.a = b)
  BY DEF Has
<1>6. /\ \A ops, b : b # a => (Has(k, {y}, ops, b) <=> Has(h, X, ops, b))
      /\ Has(k, {y}, Work, a) /\ Has(k, {y}, {"port"}, a)
      /\ Has(k, {y}, {"route"} \union Work, a)
      /\ Has(k, {y}, {"comment"}, a) => Has(h, X, {"comment"}, a)
      /\ ~Has(h, {}, Work, a)
  <2>1. ~Has(h, {}, Work, a)
    BY <1>0, <1>1 DEF HInv, Once
  <2> QED BY <1>1, <1>5, <2>1 DEF Work
<1>7. Shape(k, {y})
  BY <1>0, <1>2, <1>3 DEF HInv, Shape, Known
<1>8. Once(k, {y}, F)
  <2>1. F[a] = <<>>
    BY <1>0 DEF HInv, Once
  <2>2. \A i \in 1..Len(k.jobs) : k.jobs[i].op \in Work => k.jobs[i].a # y.a
    BY <1>6 DEF Has
  <2>3. \A i, j \in 1..Len(k.jobs) :
          k.jobs[i].op \in Work /\ k.jobs[j].op \in Work /\ k.jobs[i].a = k.jobs[j].a => i = j
    BY DEF HInv, Once
  <2>4. /\ \A b \in Ids : Len(F[b]) <= 1
        /\ \A b \in Ids : Has(h, X, Work, b) => F[b] = <<>>
        /\ \A b \in Known(h) : Has(h, X, Work, b) \/ F[b] # <<>> => h.approvals[b].applied
        /\ \A b \in Ids \ Known(h) : F[b] = <<>>
    BY DEF HInv, Once
  <2>5. \A b \in Ids : Has(k, {y}, Work, b) => F[b] = <<>>
    BY <1>6, <2>1, <2>4
  <2>6. \A b \in Known(k) : Has(k, {y}, Work, b) \/ F[b] # <<>> => k.approvals[b].applied
    <3> TAKE b \in Known(k)
    <3>1. CASE b = a
      BY <1>3, <3>1
    <3>2. CASE b # a
      BY <1>3, <1>6, <2>4, <3>2
    <3> QED BY <3>1, <3>2
  <2>7. \A b \in Ids \ Known(k) : F[b] = <<>>
    BY <1>3, <2>4
  <2>8. \A i \in 1..Len(k.jobs) : \A z \in {y} :
          k.jobs[i].op \in Work /\ z.op \in Work => k.jobs[i].a # z.a
    BY <2>2
  <2> QED BY <2>3, <2>4, <2>5, <2>6, <2>7, <2>8 DEF Once
<1>9. Recorded(k, {y}, O)
  <2>1. /\ \A b \in Known(h) : h.approvals[b].status = "pending" =>
             ~h.approvals[b].applied /\ O[b] = "none" /\ ~Has(h, X, Ops, b)
        /\ \A b \in Known(h) : IsDecided(h, b) =>
             h.approvals[b].intent \in Intents
             /\ h.approvals[b].status = intentToApprovalStatus(h.approvals[b].intent)
        /\ \A b \in Known(h) : h.approvals[b].applied => IsDecided(h, b)
        /\ \A b \in Known(h) : Has(h, X, {"comment"}, b) => Does(h, b) = "changes"
        /\ \A b \in Ids \ Known(h) : O[b] = "none"
    BY DEF HInv, Recorded
  <2>2. h.approvals[a].status # "pending"
    BY DEF IsDecided
  <2>3. \A b \in Known(h) : k.approvals[b].status = "pending" =>
          b # a /\ ~k.approvals[b].applied /\ O[b] = "none" /\ ~Has(k, {y}, Ops, b)
    <3> TAKE b \in Known(h)
    <3>1. CASE b = a
      BY <1>3, <2>2, <3>1
    <3>2. CASE b # a
      <4>1. k.approvals[b] = h.approvals[b] /\ (Has(k, {y}, Ops, b) <=> Has(h, X, Ops, b))
        BY <1>3, <1>6, <3>2
      <4> QED BY <2>1, <3>2, <4>1
    <3> QED BY <3>1, <3>2
  <2>4. \A b \in Known(h) : IsDecided(k, b) =>
          k.approvals[b].intent \in Intents
          /\ k.approvals[b].status = intentToApprovalStatus(k.approvals[b].intent)
    BY <1>3, <1>4, <2>1
  <2>5. \A b \in Known(h) : k.approvals[b].applied => IsDecided(k, b)
    BY <1>3, <1>4, <2>1
  <2>6. \A b \in Known(h) : Has(k, {y}, {"comment"}, b) => Does(k, b) = "changes"
    BY <1>4, <1>6, <2>1
  <2> QED BY <1>3, <2>1, <2>3, <2>4, <2>5, <2>6 DEF Recorded
<1>10. Said(k, F)
  BY <1>3, <1>4 DEF HInv, Said
<1>11. Away(S, k, {y})
  BY <1>0, <1>3, <1>6 DEF HInv, Away, IsDecided
<1>12. Routed(k, {y}, O, L)
  BY <1>0, <1>3, <1>4, <1>6 DEF HInv, Routed
<1>13. Gate(S, k, {y}, O, L)
  <2>1. ASSUME NEW g \in Known(h), LastGate(h, X, O, L, g) PROVE LastGate(k, {y}, O, L, g)
    <3>1. CASE g # a
      BY <1>3, <1>4, <1>6, <2>1, <3>1 DEF LastGate
    <3>2. CASE g = a
      BY <1>3, <1>4, <1>6, <2>1, <3>2 DEF LastGate
    <3> QED BY <3>1, <3>2
  <2>2. /\ S.task = "absent" => \A b \in Known(h) : targetOfApproval(h.approvals[b].gate) # "task"
        /\ S.task = "pending" => \A b \in Known(h) : h.approvals[b].gate # "task_review"
        /\ S.task = "pending" => \E g \in Known(h) : LastGate(h, X, O, L, g)
    BY DEF HInv, Gate
  <2>3. /\ S.task = "absent" => \A b \in Known(h) : targetOfApproval(k.approvals[b].gate) # "task"
        /\ S.task = "pending" => \A b \in Known(h) : k.approvals[b].gate # "task_review"
    BY <1>3, <2>2
  <2> QED BY <1>3, <2>1, <2>2, <2>3 DEF Gate
<1> QED BY <1>7, <1>8, <1>9, <1>10, <1>11, <1>12, <1>13 DEF HInv

\* What the applier may do.
LEMMA ApplyInv ==
  ASSUME Kinds, NEW h, NEW X, NEW a, HInv(status, h, X, outcome, effects, lost),
         Brings(h, X, a), X = {} => IsDecided(h, a), Apply(h, a)
  PROVE  Kinds' /\ HInv(status, hitl, {}, outcome, effects, lost)'
<1>0. /\ a \in Known(h) /\ a \in Ids /\ h \in Holding
      /\ h.approvals[a] \in Approval
  <2>1. Shape(h, X) /\ a \in Known(h)
    BY DEF HInv, Brings
  <2> QED BY <2>1, KnownIds, HoldingParts DEF Shape
<1>1. h.approvals[a].status # "pending"
  <2>1. CASE X = {}
    BY <2>1 DEF IsDecided
  <2>2. CASE X # {}
    <3>1. Has(h, X, Ops, a)
      BY <2>2 DEF Brings, Has, Ops
    <3> QED BY <1>0, <3>1 DEF HInv, Recorded
  <2> QED BY <2>1, <2>2
<1>2. UNCHANGED <<status, effects, lost>>
  BY DEF Apply
<1>3. ASSUME NEW o, outcome' = [outcome EXCEPT ![a] = o], o \in {"applied", "out-of-window", "failed"}
      PROVE  Kinds' /\ outcome'[a] # "none" /\ \A b \in Ids \ {a} : outcome'[b] = outcome[b]
  BY <1>0, <1>2, <1>3 DEF Kinds
<1>4. CASE ~canApplyApproval(h.approvals[a].gate)
  <2>1. hitl' = h /\ Finish(a, "out-of-window")
    BY <1>4 DEF Apply
  <2>2. PICK o \in {"applied", "out-of-window", "failed"} : outcome' = [outcome EXCEPT ![a] = o]
    <3>1. outcome' = [outcome EXCEPT ![a] = IF outcome[a] = "none" THEN "out-of-window" ELSE outcome[a]]
      BY <2>1 DEF Finish
    <3>2. outcome[a] \in {"none", "applied", "out-of-window", "failed"}
      BY <1>0 DEF Kinds
    <3> QED BY <3>1, <3>2
  <2>3. Kinds' /\ outcome'[a] # "none" /\ \A b \in Ids \ {a} : outcome'[b] = outcome[b]
    BY <1>3, <2>2
  <2>4. HInv(status, h, {}, outcome', effects, lost)
    BY <1>1, <1>4, <2>3, LateInv DEF canApplyApproval
  <2> QED BY <1>2, <2>1, <2>3, <2>4
<1>5. CASE canApplyApproval(h.approvals[a].gate) /\ ~claimApply(h, a)
  <2>1. hitl' = h /\ UNCHANGED outcome
    BY <1>5 DEF Apply
  <2>2. HInv(status, h, {}, outcome, effects, lost)
    BY <1>5, ClaimedInv DEF claimApply
  <2> QED BY <1>2, <2>1, <2>2 DEF Kinds
<1>6. CASE canApplyApproval(h.approvals[a].gate) /\ claimApply(h, a)
  <2> DEFINE y == job("port", a)
             k == [h EXCEPT !.approvals[a].applied = TRUE]
  <2>1. hitl' = [k EXCEPT !.jobs = <<y>> \o @] /\ UNCHANGED outcome
    <3>1. hitl' = [h EXCEPT !.approvals[a].applied = TRUE, !.jobs = <<job("port", a)>> \o @]
          /\ UNCHANGED outcome
      BY <1>5, <1>6 DEF Apply
    <3> QED BY <3>1
  <2>2. y \in Jobs /\ y.op = "port" /\ y.a = a
    BY <1>0 DEF job, Jobs
  <2>3. /\ k \in Holding /\ k.jobs = h.jobs /\ k.waiters = h.waiters
        /\ k.approvals = [h.approvals EXCEPT ![a].applied = TRUE]
    BY <1>0, WithApproval
  <2>4. IsDecided(h, a)
    <3>1. CASE X = {}
      BY <3>1
    <3>2. CASE X # {}
      <4>1. Has(h, X, Ops, a)
        BY <3>2 DEF Brings, Has, Ops
      <4>2. status[targetOfApproval(h.approvals[a].gate)] \in {"pending", "review"}
        BY <1>6 DEF canApplyApproval, window
      <4> QED BY <1>0, <1>1, <4>1, <4>2 DEF HInv, Away, IsDecided
    <3> QED BY <3>1, <3>2
  <2> HIDE DEF k, y
  <2>5. HInv(status, k, {y}, outcome, effects, lost)
    BY <1>6, <2>2, <2>3, <2>4, ClaimInv DEF claimApply
  <2>6. HInv(status, [k EXCEPT !.jobs = <<y>> \o @], {}, outcome, effects, lost)
    BY <2>5, PutInv
  <2> QED BY <1>2, <2>1, <2>6 DEF Kinds
<1> QED BY <1>4, <1>5, <1>6

-----------------------------------------------------------------------------
(* Answers and withdrawals. *)

\* k is h after some open approvals were answered, and some with a target in T
\* withdrawn: each of them has new jobs, and an answered one is routed.
Evolve(h, k, T) ==
  /\ k \in Holding /\ k.waiters \subseteq h.waiters
  /\ Len(k.approvals) = Len(h.approvals) /\ Len(h.jobs) <= Len(k.jobs)
  /\ \A i \in 1..Len(h.jobs) : k.jobs[i] = h.jobs[i]
  /\ \A i \in (Len(h.jobs) + 1)..Len(k.jobs) :
       /\ k.jobs[i].op \in {"resolve", "route"} /\ k.jobs[i].a \in Known(h)
       /\ h.approvals[k.jobs[i].a].status = "pending"
       /\ k.approvals[k.jobs[i].a].status # "pending"
  /\ \A a \in Known(h) : /\ k.approvals[a].gate = h.approvals[a].gate
                         /\ k.approvals[a].applied = h.approvals[a].applied
  /\ \A a \in Known(h) :
       \/ k.approvals[a] = h.approvals[a]
       \/ /\ h.approvals[a].status = "pending" /\ k.approvals[a].status = "cancelled"
          /\ targetOfApproval(h.approvals[a].gate) \in T
       \/ /\ h.approvals[a].status = "pending" /\ IsDecided(k, a)
          /\ k.approvals[a].intent \in Intents
          /\ k.approvals[a].status = intentToApprovalStatus(k.approvals[a].intent)
          /\ \E i \in 1..Len(k.jobs) : k.jobs[i].op = "route" /\ k.jobs[i].a = a

\* Nothing was answered.
LEMMA EvolveNothing == ASSUME NEW h \in Holding, NEW T PROVE Evolve(h, h, T)
BY HoldingParts DEF Evolve

\* One after the other.
LEMMA EvolveTwice ==
  ASSUME NEW h \in Holding, NEW k, NEW m, NEW T, NEW U, Evolve(h, k, T), Evolve(k, m, U)
  PROVE  Evolve(h, m, T \union U)
<1>1. /\ Len(h.jobs) \in Nat /\ k \in Holding /\ m \in Holding
      /\ Len(k.jobs) \in Nat /\ Len(m.jobs) \in Nat
  BY HoldingParts DEF Evolve
<1>2. /\ m.waiters \subseteq h.waiters /\ Len(m.approvals) = Len(h.approvals)
      /\ Len(h.jobs) <= Len(k.jobs) /\ Len(k.jobs) <= Len(m.jobs)
      /\ Len(h.jobs) <= Len(m.jobs) /\ Known(k) = Known(h)
  BY <1>1 DEF Evolve, Known
<1>3. /\ \A i \in 1..Len(h.jobs) : k.jobs[i] = h.jobs[i]
      /\ \A i \in (Len(h.jobs) + 1)..Len(k.jobs) :
           /\ k.jobs[i].op \in {"resolve", "route"} /\ k.jobs[i].a \in Known(h)
           /\ h.approvals[k.jobs[i].a].status = "pending"
           /\ k.approvals[k.jobs[i].a].status # "pending"
      /\ \A a \in Known(h) : /\ k.approvals[a].gate = h.approvals[a].gate
                             /\ k.approvals[a].applied = h.approvals[a].applied
      /\ \A a \in Known(h) :
           \/ k.approvals[a] = h.approvals[a]
           \/ /\ h.approvals[a].status = "pending" /\ k.approvals[a].status = "cancelled"
              /\ targetOfApproval(h.approvals[a].gate) \in T
           \/ /\ h.approvals[a].status = "pending" /\ IsDecided(k, a)
              /\ k.approvals[a].intent \in Intents
              /\ k.approvals[a].status = intentToApprovalStatus(k.approvals[a].intent)
              /\ \E i \in 1..Len(k.jobs) : k.jobs[i].op = "route" /\ k.jobs[i].a = a
  BY DEF Evolve
<1>4. /\ \A i \in 1..Len(k.jobs) : m.jobs[i] = k.jobs[i]
      /\ \A i \in (Len(k.jobs) + 1)..Len(m.jobs) :
           /\ m.jobs[i].op \in {"resolve", "route"} /\ m.jobs[i].a \in Known(h)
           /\ k.approvals[m.jobs[i].a].status = "pending"
           /\ m.approvals[m.jobs[i].a].status # "pending"
      /\ \A a \in Known(h) : /\ m.approvals[a].gate = k.approvals[a].gate
                             /\ m.approvals[a].applied = k.approvals[a].applied
      /\ \A a \in Known(h) :
           \/ m.approvals[a] = k.approvals[a]
           \/ /\ k.approvals[a].status = "pending" /\ m.approvals[a].status = "cancelled"
              /\ targetOfApproval(k.approvals[a].gate) \in U
           \/ /\ k.approvals[a].status = "pending" /\ IsDecided(m, a)
              /\ m.approvals[a].intent \in Intents
              /\ m.approvals[a].status = intentToApprovalStatus(m.approvals[a].intent)
              /\ \E i \in 1..Len(m.jobs) : m.jobs[i].op = "route" /\ m.jobs[i].a = a
  BY <1>2 DEF Evolve
<1>5. \A a \in Known(h) : k.approvals[a].status = "pending" => k.approvals[a] = h.approvals[a]
  BY <1>3 DEF IsDecided
<1>6. \A a \in Known(h) : k.approvals[a].status # "pending" => m.approvals[a] = k.approvals[a]
  BY <1>4
<1>7. \A i \in 1..Len(h.jobs) : m.jobs[i] = h.jobs[i]
  BY <1>1, <1>2, <1>3, <1>4
<1>8. \A i \in (Len(h.jobs) + 1)..Len(m.jobs) :
        /\ m.jobs[i].op \in {"resolve", "route"} /\ m.jobs[i].a \in Known(h)
        /\ h.approvals[m.jobs[i].a].status = "pending"
        /\ m.approvals[m.jobs[i].a].status # "pending"
  <2> TAKE i \in (Len(h.jobs) + 1)..Len(m.jobs)
  <2>1. CASE i <= Len(k.jobs)
    <3>1. i \in (Len(h.jobs) + 1)..Len(k.jobs) /\ i \in 1..Len(k.jobs)
      BY <1>1, <2>1
    <3>2. m.jobs[i] = k.jobs[i]
      BY <1>4, <3>1
    <3>3. /\ k.jobs[i].op \in {"resolve", "route"} /\ k.jobs[i].a \in Known(h)
          /\ h.approvals[k.jobs[i].a].status = "pending"
          /\ k.approvals[k.jobs[i].a].status # "pending"
      BY <1>3, <3>1
    <3>4. m.approvals[k.jobs[i].a] = k.approvals[k.jobs[i].a]
      BY <1>6, <3>3
    <3> QED BY <3>2, <3>3, <3>4
  <2>2. CASE ~(i <= Len(k.jobs))
    <3>1. i \in (Len(k.jobs) + 1)..Len(m.jobs)
      BY <1>1, <2>2
    <3> QED BY <1>4, <1>5, <3>1
  <2> QED BY <2>1, <2>2
<1>9. \A a \in Known(h) : /\ m.approvals[a].gate = h.approvals[a].gate
                          /\ m.approvals[a].applied = h.approvals[a].applied
  BY <1>3, <1>4
<1>10. ASSUME NEW a \in Known(h)
       PROVE  \/ m.approvals[a] = h.approvals[a]
              \/ /\ h.approvals[a].status = "pending" /\ m.approvals[a].status = "cancelled"
                 /\ targetOfApproval(h.approvals[a].gate) \in T \union U
              \/ /\ h.approvals[a].status = "pending" /\ IsDecided(m, a)
                 /\ m.approvals[a].intent \in Intents
                 /\ m.approvals[a].status = intentToApprovalStatus(m.approvals[a].intent)
                 /\ \E i \in 1..Len(m.jobs) : m.jobs[i].op = "route" /\ m.jobs[i].a = a
  <2>1. CASE k.approvals[a].status = "pending"
    BY <1>3, <1>4, <1>5, <2>1
  <2>2. CASE k.approvals[a].status # "pending"
    <3>1. m.approvals[a] = k.approvals[a] /\ (IsDecided(k, a) => IsDecided(m, a))
      BY <1>6, <2>2 DEF IsDecided
    <3>2. (\E i \in 1..Len(k.jobs) : k.jobs[i].op = "route" /\ k.jobs[i].a = a)
            => \E i \in 1..Len(m.jobs) : m.jobs[i].op = "route" /\ m.jobs[i].a = a
      BY <1>1, <1>2, <1>4
    <3> QED BY <1>3, <3>1, <3>2
  <2> QED BY <2>1, <2>2
<1> HIDE DEF Holding
<1> QED BY <1>1, <1>2, <1>7, <1>8, <1>9, <1>10 DEF Evolve

\* The status may change from S to Z together with withdrawals for T: what they
\* are for leaves every window, and no window opens while jobs wait.
Moves(S, Z, h, X, T) ==
  /\ \A t \in T : Z[t] \notin {"pending", "review"}
  /\ \A t \in Targets : Z[t] \in {"pending", "review"} =>
        S[t] \in {"pending", "review"} \/ (h.jobs = <<>> /\ X = {})
  /\ Z["task"] = "absent" => S["task"] = "absent"
  /\ Z["task"] = "pending" => S["task"] = "pending"

\* A recorded decision stays as it is.
LEMMA EvolveKeeps ==
  ASSUME NEW h, NEW k, NEW T, Evolve(h, k, T)
  PROVE  \A a \in Known(h) : IsDecided(h, a) => k.approvals[a] = h.approvals[a]
BY DEF Evolve, IsDecided

\* The invariant allows answers and withdrawals.
LEMMA EvolveInv ==
  ASSUME NEW S, NEW Z, NEW h, NEW k, NEW X, NEW O, NEW F, NEW L, NEW T,
         HInv(S, h, X, O, F, L), Evolve(h, k, T), Moves(S, Z, h, X, T)
  PROVE  HInv(Z, k, X, O, F, L)
<1>0. /\ \A t \in T : Z[t] \notin {"pending", "review"}
      /\ \A t \in Targets : Z[t] \in {"pending", "review"} =>
            S[t] \in {"pending", "review"} \/ (h.jobs = <<>> /\ X = {})
      /\ Z["task"] = "absent" => S["task"] = "absent"
      /\ Z["task"] = "pending" => S["task"] = "pending"
  BY DEF Moves
<1>1. /\ k \in Holding /\ k.waiters \subseteq h.waiters /\ Known(k) = Known(h)
      /\ Len(k.approvals) = Len(h.approvals)
      /\ Len(h.jobs) \in Nat /\ Len(k.jobs) \in Nat /\ Len(h.jobs) <= Len(k.jobs)
      /\ h \in Holding /\ \A a \in Known(h) : a \in Ids /\ h.approvals[a] \in Approval
  <2>1. Shape(h, X) /\ h \in Holding
    BY DEF HInv, Shape
  <2>2. k \in Holding
    BY DEF Evolve
  <2> QED BY <2>1, <2>2, KnownIds, HoldingParts DEF Evolve, Known
<1>2. /\ \A i \in 1..Len(h.jobs) : k.jobs[i] = h.jobs[i]
      /\ \A i \in (Len(h.jobs) + 1)..Len(k.jobs) :
           /\ k.jobs[i].op \in {"resolve", "route"} /\ k.jobs[i].a \in Known(h)
           /\ h.approvals[k.jobs[i].a].status = "pending"
           /\ k.approvals[k.jobs[i].a].status # "pending"
      /\ \A i \in 1..Len(k.jobs) : i \in 1..Len(h.jobs) \/ i \in (Len(h.jobs) + 1)..Len(k.jobs)
      /\ \A i \in 1..Len(h.jobs) : i \in 1..Len(k.jobs)
  BY <1>1 DEF Evolve
<1>3. \A a \in Known(h) : /\ k.approvals[a].gate = h.approvals[a].gate
                          /\ k.approvals[a].applied = h.approvals[a].applied
  BY DEF Evolve
<1>4. \A a \in Known(h) :
        \/ k.approvals[a] = h.approvals[a]
        \/ /\ h.approvals[a].status = "pending" /\ k.approvals[a].status = "cancelled"
           /\ targetOfApproval(h.approvals[a].gate) \in T
        \/ /\ h.approvals[a].status = "pending" /\ IsDecided(k, a)
           /\ k.approvals[a].intent \in Intents
           /\ k.approvals[a].status = intentToApprovalStatus(k.approvals[a].intent)
           /\ \E i \in 1..Len(k.jobs) : k.jobs[i].op = "route" /\ k.jobs[i].a = a
  BY DEF Evolve
<1>5. /\ \A a \in Known(h) : h.approvals[a].status # "pending" => k.approvals[a] = h.approvals[a]
      /\ \A a \in Known(h) : k.approvals[a].status = "pending" => k.approvals[a] = h.approvals[a]
  BY <1>4 DEF IsDecided
<1>6. /\ \A ops, a : Has(h, X, ops, a) => Has(k, X, ops, a)
      /\ \A ops, a : Has(k, X, ops, a) =>
           \/ Has(h, X, ops, a)
           \/ /\ \E o \in ops : o \in {"resolve", "route"}
              /\ h.approvals[a].status = "pending" /\ k.approvals[a].status # "pending"
  <2>1. ASSUME NEW ops, NEW a, Has(h, X, ops, a) PROVE Has(k, X, ops, a)
    BY <1>2, <2>1 DEF Has
  <2>2. ASSUME NEW ops, NEW a, Has(k, X, ops, a)
        PROVE  \/ Has(h, X, ops, a)
               \/ /\ \E o \in ops : o \in {"resolve", "route"}
                  /\ h.approvals[a].status = "pending" /\ k.approvals[a].status # "pending"
    BY <1>2, <2>2 DEF Has
  <2> QED BY <2>1, <2>2
<1>7. /\ \A a : Has(k, X, Work, a) <=> Has(h, X, Work, a)
      /\ \A a : Has(k, X, {"comment"}, a) <=> Has(h, X, {"comment"}, a)
  BY <1>6 DEF Work
<1>8. \A a \in Known(h) : IsDecided(h, a) =>
        k.approvals[a] = h.approvals[a] /\ IsDecided(k, a) /\ Does(k, a) = Does(h, a)
  BY <1>5 DEF IsDecided, Does
<1>9. Shape(k, X)
  BY <1>1, <1>2 DEF HInv, Shape
<1>10. Once(k, X, F)
  <2>1. \A i \in 1..Len(k.jobs) : k.jobs[i].op \in Work => i \in 1..Len(h.jobs) /\ k.jobs[i] = h.jobs[i]
    BY <1>2 DEF Work
  <2>2. /\ \A i, j \in 1..Len(h.jobs) :
             h.jobs[i].op \in Work /\ h.jobs[j].op \in Work /\ h.jobs[i].a = h.jobs[j].a => i = j
        /\ \A i \in 1..Len(h.jobs) : \A x \in X :
             h.jobs[i].op \in Work /\ x.op \in Work => h.jobs[i].a # x.a
    BY DEF HInv, Once
  <2>3. /\ \A a \in Ids : Len(F[a]) <= 1
        /\ \A a \in Ids : Has(h, X, Work, a) => F[a] = <<>>
        /\ \A a \in Known(h) : Has(h, X, Work, a) \/ F[a] # <<>> => h.approvals[a].applied
        /\ \A a \in Ids \ Known(h) : F[a] = <<>>
    BY DEF HInv, Once
  <2>4. \A i, j \in 1..Len(k.jobs) :
          k.jobs[i].op \in Work /\ k.jobs[j].op \in Work /\ k.jobs[i].a = k.jobs[j].a => i = j
    BY <2>1, <2>2
  <2>5. \A i \in 1..Len(k.jobs) : \A x \in X :
          k.jobs[i].op \in Work /\ x.op \in Work => k.jobs[i].a # x.a
    BY <2>1, <2>2
  <2> QED BY <1>1, <1>3, <1>7, <2>3, <2>4, <2>5 DEF Once
<1>11. Recorded(k, X, O)
  <2>1. /\ \A a \in Known(h) : h.approvals[a].status = "pending" =>
             ~h.approvals[a].applied /\ O[a] = "none" /\ ~Has(h, X, Ops, a)
        /\ \A a \in Known(h) : IsDecided(h, a) =>
             h.approvals[a].intent \in Intents
             /\ h.approvals[a].status = intentToApprovalStatus(h.approvals[a].intent)
        /\ \A a \in Known(h) : h.approvals[a].applied => IsDecided(h, a)
        /\ \A a \in Known(h) : Has(h, X, {"comment"}, a) => Does(h, a) = "changes"
        /\ \A a \in Ids \ Known(h) : O[a] = "none"
    BY DEF HInv, Recorded
  <2>2. \A a \in Known(h) : k.approvals[a].status = "pending" =>
          ~k.approvals[a].applied /\ O[a] = "none" /\ ~Has(k, X, Ops, a)
    <3> SUFFICES ASSUME NEW a \in Known(h), k.approvals[a].status = "pending"
                 PROVE  ~k.approvals[a].applied /\ O[a] = "none" /\ ~Has(k, X, Ops, a)
      OBVIOUS
    <3>1. h.approvals[a].status = "pending" /\ k.approvals[a] = h.approvals[a]
      BY <1>5
    <3>2. ~Has(k, X, Ops, a)
      BY <1>6, <2>1, <3>1
    <3> QED BY <2>1, <3>1, <3>2
  <2>3. \A a \in Known(h) : IsDecided(k, a) =>
          k.approvals[a].intent \in Intents
          /\ k.approvals[a].status = intentToApprovalStatus(k.approvals[a].intent)
    <3> SUFFICES ASSUME NEW a \in Known(h), IsDecided(k, a)
                 PROVE  k.approvals[a].intent \in Intents
                        /\ k.approvals[a].status = intentToApprovalStatus(k.approvals[a].intent)
      OBVIOUS
    <3>1. CASE k.approvals[a] = h.approvals[a]
      BY <2>1, <3>1 DEF IsDecided
    <3>2. CASE k.approvals[a] # h.approvals[a]
      BY <1>4, <3>2 DEF IsDecided
    <3> QED BY <3>1, <3>2
  <2>4. \A a \in Known(h) : k.approvals[a].applied => IsDecided(k, a)
    BY <1>3, <1>8, <2>1
  <2>5. \A a \in Known(h) : Has(k, X, {"comment"}, a) => Does(k, a) = "changes"
    <3> SUFFICES ASSUME NEW a \in Known(h), Has(k, X, {"comment"}, a) PROVE Does(k, a) = "changes"
      OBVIOUS
    <3>1. Has(h, X, {"comment"}, a)
      BY <1>7
    <3>2. Has(h, X, Work, a)
      BY <3>1 DEF Has, Work
    <3>3. h.approvals[a].applied
      BY <3>2 DEF HInv, Once
    <3> QED BY <1>8, <2>1, <3>1, <3>3
  <2> QED BY <1>1, <2>1, <2>2, <2>3, <2>4, <2>5 DEF Recorded
<1>12. Said(k, F)
  BY <1>1, <1>8 DEF HInv, Said
<1>13. Away(Z, k, X)
  <2> SUFFICES ASSUME NEW a \in Known(h), k.approvals[a].status = "cancelled", Has(k, X, Ops, a)
               PROVE  Z[targetOfApproval(h.approvals[a].gate)] \notin {"pending", "review"}
    BY <1>1, <1>3 DEF Away
  <2> DEFINE t == targetOfApproval(h.approvals[a].gate)
  <2>1. t \in Targets
    BY <1>1, GateTargets, ApprovalFields
  <2>2. CASE h.approvals[a].status = "pending"
    BY <1>0, <1>4, <2>2 DEF IsDecided
  <2>3. CASE h.approvals[a].status # "pending"
    <3>1. h.approvals[a].status = "cancelled" /\ Has(h, X, Ops, a)
      BY <1>5, <1>6, <2>3
    <3>2. S[t] \notin {"pending", "review"}
      BY <3>1 DEF HInv, Away
    <3>3. ~(h.jobs = <<>> /\ X = {})
      BY <3>1 DEF Has
    <3> QED BY <1>0, <2>1, <3>2, <3>3
  <2> QED BY <2>2, <2>3
<1>14. Routed(k, X, O, L)
  <2> SUFFICES ASSUME NEW a \in Known(h), O[a] = "none", a \notin L
               PROVE  /\ IsDecided(k, a) => Has(k, X, {"route"} \union Work, a)
                      /\ k.approvals[a].applied => Has(k, X, Work, a)
    BY <1>1 DEF Routed
  <2>1. /\ IsDecided(h, a) => Has(h, X, {"route"} \union Work, a)
        /\ h.approvals[a].applied => Has(h, X, Work, a)
    BY DEF HInv, Routed
  <2>2. CASE k.approvals[a] = h.approvals[a]
    BY <1>6, <2>1, <2>2 DEF IsDecided
  <2>3. CASE k.approvals[a] # h.approvals[a]
    <3>1. IsDecided(k, a) => \E i \in 1..Len(k.jobs) : k.jobs[i].op = "route" /\ k.jobs[i].a = a
      BY <1>4, <2>3 DEF IsDecided
    <3> QED BY <1>3, <1>7, <2>1, <3>1 DEF Has
  <2> QED BY <2>2, <2>3
<1>15. Gate(Z, k, X, O, L)
  <2>1. ASSUME NEW g \in Known(h), LastGate(h, X, O, L, g), Z["task"] = "pending"
        PROVE  LastGate(k, X, O, L, g)
    <3>1. /\ k.approvals[g].gate = "task"
          /\ \A b \in Known(k) : k.approvals[b].gate = "task" => b <= g
          /\ targetOfApproval(h.approvals[g].gate) = "task"
      BY <1>1, <1>3, <2>1 DEF LastGate, targetOfApproval
    <3>2. pendingOf(k, "task") \subseteq {g}
      <4>1. pendingOf(k, "task") \subseteq pendingOf(h, "task")
        BY <1>1, <1>3, <1>5 DEF pendingOf
      <4> QED BY <2>1, <4>1 DEF LastGate
    <3>3. CASE k.approvals[g] = h.approvals[g]
      BY <1>6, <2>1, <3>1, <3>2, <3>3 DEF LastGate
    <3>4. CASE k.approvals[g] # h.approvals[g]
      <4>1. "task" \notin T
        BY <1>0, <2>1
      <4>2. h.approvals[g].status = "pending" /\ Has(k, X, {"route"}, g)
        BY <1>4, <3>1, <3>4, <4>1 DEF Has
      <4>3. ~k.approvals[g].applied /\ O[g] = "none"
        BY <1>3, <4>2 DEF HInv, Recorded
      <4> QED BY <3>1, <3>2, <4>2, <4>3 DEF LastGate
    <3> QED BY <3>3, <3>4
  <2>2. /\ Z.task = Z["task"] /\ S.task = S["task"]
    OBVIOUS
  <2> QED BY <1>0, <1>1, <1>3, <2>1, <2>2 DEF HInv, Gate
<1> QED BY <1>9, <1>10, <1>11, <1>12, <1>13, <1>14, <1>15 DEF HInv

\* The approvals and the registry after an answer.
AnswerTo(f, a, st, in) == [f EXCEPT ![a].status = st, ![a].intent = in]
Answer(h, a, st, in, W, J) ==
  [h EXCEPT !.approvals[a].status = st, !.approvals[a].intent = in, !.waiters = W, !.jobs = J]

\* An answer changes one approval and leaves a registry of the same type.
LEMMA WithAnswer ==
  ASSUME NEW h \in Holding, NEW W \in SUBSET Ids, NEW J \in Seq(Jobs), NEW a, NEW st, NEW in,
         AnswerTo(h.approvals, a, st, in) \in Seq(Approval)
  PROVE  /\ Answer(h, a, st, in, W, J) \in Holding
         /\ Answer(h, a, st, in, W, J).waiters = W
         /\ Answer(h, a, st, in, W, J).jobs = J
         /\ Answer(h, a, st, in, W, J).approvals = AnswerTo(h.approvals, a, st, in)
<1> DEFINE k == Answer(h, a, st, in, W, J)
           P == [h.approvals EXCEPT ![a].status = st, ![a].intent = in]
<1>6. P = AnswerTo(h.approvals, a, st, in)
  BY DEF AnswerTo
<1>0. k = [h EXCEPT !.approvals[a].status = st, !.approvals[a].intent = in, !.waiters = W, !.jobs = J]
  BY DEF Answer
<1> HIDE DEF k
<1> DEFINE A == Seq(Approval)
           B == SUBSET Ids
           C == Seq(Jobs)
<1>1. /\ h \in [approvals : A, waiters : B, jobs : C] /\ W \in B /\ J \in C
      /\ AnswerTo(h.approvals, a, st, in) \in A
  BY DEF Holding
<1> HIDE DEF A, B, C
<1>2. k.approvals = P
  BY <1>0, <1>1
<1>3. k.waiters = W /\ k.jobs = J
  BY <1>0, <1>1
<1>4. k.approvals \in A
  BY <1>1, <1>2, <1>6
<1>5. k \in [approvals : A, waiters : B, jobs : C]
  BY <1>0, <1>1, <1>4
<1> QED BY <1>2, <1>3, <1>5, <1>6 DEF Holding, A, B, C, k

\* The registry after a withdrawal.
Withdrawal(h, P, W, J) == [h EXCEPT !.approvals = P, !.waiters = W, !.jobs = J]

\* A withdrawal leaves a registry of the same type.
LEMMA WithWithdrawal ==
  ASSUME NEW h \in Holding, NEW P \in Seq(Approval), NEW W \in SUBSET Ids, NEW J \in Seq(Jobs)
  PROVE  /\ Withdrawal(h, P, W, J) \in Holding
         /\ Withdrawal(h, P, W, J).approvals = P
         /\ Withdrawal(h, P, W, J).waiters = W
         /\ Withdrawal(h, P, W, J).jobs = J
<1> DEFINE k == Withdrawal(h, P, W, J)
<1>0. k = [h EXCEPT !.approvals = P, !.waiters = W, !.jobs = J]
  BY DEF Withdrawal
<1> HIDE DEF k
<1> DEFINE A == Seq(Approval)
           B == SUBSET Ids
           C == Seq(Jobs)
<1>1. h \in [approvals : A, waiters : B, jobs : C] /\ P \in A /\ W \in B /\ J \in C
  BY DEF Holding
<1> HIDE DEF A, B, C
<1>2. k \in [approvals : A, waiters : B, jobs : C] /\ k.approvals = P /\ k.waiters = W /\ k.jobs = J
  BY <1>0, <1>1
<1> QED BY <1>2 DEF Holding, A, B, C, k

\* Jobs that an answer, or a withdrawal, puts at the end of the queue.
LEMMA MoreJobs ==
  ASSUME NEW J \in Seq(Jobs), NEW R \in Seq(Jobs)
  PROVE  /\ J \o R \in Seq(Jobs) /\ Len(J \o R) = Len(J) + Len(R)
         /\ Len(J) \in Nat /\ Len(R) \in Nat
         /\ \A i \in 1..Len(J) : (J \o R)[i] = J[i]
         /\ \A i \in (Len(J) + 1)..Len(J \o R) :
              i - Len(J) \in 1..Len(R) /\ (J \o R)[i] = R[i - Len(J)]
OBVIOUS

\* What respondToApproval does.
LEMMA RespondEvolves ==
  ASSUME NEW h, NEW X, NEW a \in Known(h), NEW intent \in Intents, Shape(h, X),
         h.approvals[a].status = "pending", NEW k, k = respondToApproval(h, a, intent)
  PROVE  /\ \A T : Evolve(h, k, T)
         /\ IsDecided(k, a)
         /\ \A b \in Known(h) \ {a} : k.approvals[b] = h.approvals[b]
<1>1. /\ h \in Holding /\ h.approvals \in Seq(Approval) /\ h.jobs \in Seq(Jobs)
      /\ h.waiters \in SUBSET Ids /\ a \in Ids /\ h.approvals[a] \in Approval
      /\ a \in 1..Len(h.approvals) /\ Len(h.approvals) \in Nat
  <2>1. h \in Holding
    BY DEF Shape
  <2> QED BY <2>1, HoldingParts, KnownIds DEF Known
<1> DEFINE st == intentToApprovalStatus(intent)
           y == [h.approvals[a] EXCEPT !.status = st, !.intent = intent]
           P == [h.approvals EXCEPT ![a] = y]
           R == IF a \in h.waiters THEN <<job("resolve", a)>> ELSE <<>>
           U == <<job("route", a)>>
           Q == h.jobs \o R
           J == h.jobs \o R \o U
<1>2. st \in ApprovalStatus /\ st \notin {"pending", "cancelled"}
  BY DEF intentToApprovalStatus, ApprovalStatus, Intents
<1>3. job("resolve", a) \in Jobs /\ job("route", a) \in Jobs
      /\ job("resolve", a).op = "resolve" /\ job("resolve", a).a = a
      /\ job("route", a).op = "route" /\ job("route", a).a = a
  BY <1>1 DEF job, Jobs
<1>4. k = Answer(h, a, st, intent, h.waiters \ {a}, J)
  BY DEF respondToApproval, Answer
<1>5. P \in Seq(Approval)
  <2>1. y \in Approval
    <3> HIDE DEF st
    <3> QED BY <1>1, <1>2 DEF Approval
  <2> HIDE DEF y
  <2> QED BY <1>1, <2>1
<1>6. /\ y.status = st /\ y.intent = intent /\ y.gate = h.approvals[a].gate
      /\ y.applied = h.approvals[a].applied
  <2> HIDE DEF st
  <2> QED BY <1>1 DEF Approval
<1>7. /\ Len(P) = Len(h.approvals) /\ P[a] = y
      /\ \A b \in Known(h) \ {a} : P[b] = h.approvals[b]
  <2> HIDE DEF y
  <2> QED BY <1>1 DEF Known
<1>8. /\ R \in Seq(Jobs) /\ U \in Seq(Jobs) /\ Len(R) \in 0..1 /\ Len(U) = 1
      /\ \A i \in 1..Len(R) : R[i].op = "resolve" /\ R[i].a = a
      /\ U[1].op = "route" /\ U[1].a = a
  <2> DEFINE u == job("resolve", a)
             v == job("route", a)
  <2> HIDE DEF u, v
  <2>1. R = <<>> \/ R = <<u>>
    BY DEF R, u
  <2>2. U = <<v>>
    BY DEF U, v
  <2>3. u \in Jobs /\ u.op = "resolve" /\ u.a = a /\ v \in Jobs /\ v.op = "route" /\ v.a = a
    BY <1>3 DEF u, v
  <2> HIDE DEF R, U
  <2>4. Len(U) = 1 /\ U[1] = v /\ U \in Seq(Jobs)
    BY <2>2, <2>3
  <2>5. CASE R = <<>>
    BY <2>3, <2>4, <2>5
  <2>6. CASE R = <<u>>
    <3>1. Len(R) = 1 /\ R[1] = u /\ R \in Seq(Jobs)
      BY <2>3, <2>6
    <3> QED BY <2>3, <2>4, <3>1
  <2> QED BY <2>1, <2>5, <2>6
<1> HIDE DEF R, U
<1>9. /\ J \in Seq(Jobs) /\ Len(J) = Len(h.jobs) + Len(R) + 1 /\ Len(h.jobs) \in Nat
      /\ \A i \in 1..Len(h.jobs) : J[i] = h.jobs[i]
      /\ \A i \in (Len(h.jobs) + 1)..Len(J) : J[i].op \in {"resolve", "route"} /\ J[i].a = a
      /\ J[Len(J)].op = "route" /\ J[Len(J)].a = a
  <2>1. /\ Q \in Seq(Jobs) /\ Len(Q) = Len(h.jobs) + Len(R) /\ Len(h.jobs) \in Nat
        /\ \A i \in 1..Len(h.jobs) : Q[i] = h.jobs[i]
        /\ \A i \in (Len(h.jobs) + 1)..Len(Q) :
             i - Len(h.jobs) \in 1..Len(R) /\ Q[i] = R[i - Len(h.jobs)]
    BY <1>1, <1>8, MoreJobs
  <2> HIDE DEF Q
  <2>2. /\ J \in Seq(Jobs) /\ Len(J) = Len(Q) + Len(U)
        /\ \A i \in 1..Len(Q) : J[i] = Q[i]
        /\ \A i \in (Len(Q) + 1)..Len(J) : i - Len(Q) \in 1..Len(U) /\ J[i] = U[i - Len(Q)]
    <3> DEFINE K == Q \o U
    <3>1. /\ K \in Seq(Jobs) /\ Len(K) = Len(Q) + Len(U)
          /\ \A i \in 1..Len(Q) : K[i] = Q[i]
          /\ \A i \in (Len(Q) + 1)..Len(K) : i - Len(Q) \in 1..Len(U) /\ K[i] = U[i - Len(Q)]
      BY <1>8, <2>1, MoreJobs
    <3>2. J = K
      BY DEF Q
    <3> HIDE DEF J, K
    <3> QED BY <3>1, <3>2
  <2> HIDE DEF J
  <2>3. Len(J) = Len(Q) + 1 /\ J[Len(J)] = U[1]
    BY <1>8, <2>1, <2>2
  <2>4. \A i \in 1..Len(h.jobs) : J[i] = h.jobs[i]
    BY <1>8, <2>1, <2>2
  <2>5. \A i \in (Len(h.jobs) + 1)..Len(J) :
          i = Len(J) \/ (i - Len(h.jobs) \in 1..Len(R) /\ J[i] = R[i - Len(h.jobs)])
    BY <1>8, <2>1, <2>2, <2>3
  <2>6. \A i \in (Len(h.jobs) + 1)..Len(J) : J[i].op \in {"resolve", "route"} /\ J[i].a = a
    BY <1>8, <2>3, <2>5
  <2> QED BY <1>8, <2>1, <2>2, <2>3, <2>4, <2>6
<1>10. k \in Holding /\ k.approvals = P /\ k.waiters = h.waiters \ {a} /\ k.jobs = J
  <2>1. h.waiters \ {a} \in SUBSET Ids
    BY <1>1
  <2>2. P = AnswerTo(h.approvals, a, st, intent)
    BY <1>1 DEF AnswerTo
  <2> DEFINE W == h.waiters \ {a}
  <2> HIDE DEF P, J, st, W
  <2>3. J \in Seq(Jobs) /\ W \in SUBSET Ids /\ k = Answer(h, a, st, intent, W, J)
    BY <1>4, <1>9, <2>1 DEF W
  <2>4. k \in Holding /\ k.approvals = P /\ k.waiters = W /\ k.jobs = J
    BY <1>1, <1>5, <2>2, <2>3, WithAnswer
  <2> QED BY <2>4 DEF W
<1> HIDE DEF P, J, y, st
<1>11. IsDecided(k, a)
  BY <1>2, <1>6, <1>7, <1>10 DEF IsDecided
<1>13. \E i \in 1..Len(J) : J[i].op = "route" /\ J[i].a = a
  <2>1. Len(J) \in 1..Len(J)
    BY <1>8, <1>9
  <2> QED BY <1>9, <2>1
<1>14. ASSUME NEW T PROVE Evolve(h, k, T)
  <2>1. Len(h.jobs) <= Len(J) /\ h.waiters \ {a} \subseteq h.waiters
    BY <1>8, <1>9
  <2>2. \A i \in (Len(h.jobs) + 1)..Len(J) :
          /\ J[i].op \in {"resolve", "route"} /\ J[i].a \in Known(h)
          /\ h.approvals[J[i].a].status = "pending"
          /\ P[J[i].a].status # "pending"
    BY <1>2, <1>6, <1>7, <1>9
  <2>3. \A b \in Known(h) : P[b].gate = h.approvals[b].gate /\ P[b].applied = h.approvals[b].applied
    BY <1>6, <1>7
  <2>4. \A b \in Known(h) :
          \/ P[b] = h.approvals[b]
          \/ /\ h.approvals[b].status = "pending" /\ IsDecided(k, b)
             /\ P[b].intent \in Intents /\ P[b].status = intentToApprovalStatus(P[b].intent)
             /\ \E i \in 1..Len(J) : J[i].op = "route" /\ J[i].a = b
    BY <1>6, <1>7, <1>11, <1>13 DEF st
  <2> QED BY <1>7, <1>9, <1>10, <2>1, <2>2, <2>3, <2>4 DEF Evolve
<1> QED BY <1>7, <1>10, <1>11, <1>14

\* A finite set laid out as a sequence.
LEMMA SetToSeqType ==
  ASSUME NEW W, IsFiniteSet(W)
  PROVE  /\ Cardinality(W) \in Nat
         /\ \A i \in 1..Cardinality(W) : SetToSeq(W)[i] \in W
<1>1. Cardinality(W) \in Nat /\ ExistsBijection(1..Cardinality(W), W)
  BY FS_CardinalityType
<1>2. \E f \in [1..Cardinality(W) -> W] : IsInjective(f)
  BY <1>1 DEF ExistsBijection, Bijection, Injection, IsInjective
<1>3. SetToSeq(W) \in [1..Cardinality(W) -> W]
  BY <1>2 DEF SetToSeq
<1> QED BY <1>1, <1>3

\* What cancelApprovalsByDetail does.
LEMMA CancelEvolves ==
  ASSUME NEW h, NEW X, NEW t, Shape(h, X), NEW k, k = cancelApprovalsByDetail(h, t)
  PROVE  /\ Evolve(h, k, {t})
         /\ \A a \in Known(h) : IF a \in pendingOf(h, t) THEN k.approvals[a].status = "cancelled"
                                                         ELSE k.approvals[a] = h.approvals[a]
<1> DEFINE gone == pendingOf(h, t)
           W == gone \intersect h.waiters
           P == [a \in Known(h) |-> IF a \in gone
                   THEN [h.approvals[a] EXCEPT !.status = "cancelled", !.intent = "reject"]
                   ELSE h.approvals[a]]
           R == [i \in 1..Cardinality(W) |-> job("resolve", SetToSeq(W)[i])]
           J == h.jobs \o R
<1>1. /\ h \in Holding /\ h.approvals \in Seq(Approval) /\ h.jobs \in Seq(Jobs)
      /\ h.waiters \in SUBSET Ids /\ \A a \in Known(h) : a \in Ids /\ h.approvals[a] \in Approval
      /\ Len(h.approvals) \in Nat
  <2>1. h \in Holding
    BY DEF Shape
  <2> QED BY <2>1, HoldingParts, KnownIds
<1>2. k = Withdrawal(h, P, h.waiters \ gone, J)
  <2>1. k = [h EXCEPT !.approvals = [a \in Known(h) |->
                          IF a \in gone THEN [@[a] EXCEPT !.status = "cancelled", !.intent = "reject"]
                                        ELSE @[a]],
                      !.waiters = @ \ gone, !.jobs = @ \o R]
    BY DEF cancelApprovalsByDetail
  <2> HIDE DEF gone, R
  <2> QED BY <2>1 DEF Withdrawal
<1>3. \A a \in Known(h) : a \in gone <=> h.approvals[a].status = "pending"
                                         /\ targetOfApproval(h.approvals[a].gate) = t
  BY DEF pendingOf
<1>4. \A a \in Known(h) :
        LET y == [h.approvals[a] EXCEPT !.status = "cancelled", !.intent = "reject"]
        IN y \in Approval /\ y.status = "cancelled" /\ y.gate = h.approvals[a].gate
           /\ y.applied = h.approvals[a].applied
  BY <1>1 DEF Approval, ApprovalStatus, Intents
<1>5. /\ P \in Seq(Approval) /\ Len(P) = Len(h.approvals)
      /\ \A a \in Known(h) : IF a \in gone THEN P[a].status = "cancelled" ELSE P[a] = h.approvals[a]
      /\ \A a \in Known(h) : P[a].gate = h.approvals[a].gate /\ P[a].applied = h.approvals[a].applied
  <2>1. P \in [1..Len(h.approvals) -> Approval]
    <3> HIDE DEF gone
    <3> QED BY <1>1, <1>4 DEF Known
  <2>2. P \in Seq(Approval) /\ Len(P) = Len(h.approvals)
    <3> HIDE DEF P
    <3> QED BY <1>1, <2>1
  <2>3. \A a \in Known(h) : /\ IF a \in gone THEN P[a].status = "cancelled" ELSE P[a] = h.approvals[a]
                            /\ P[a].gate = h.approvals[a].gate /\ P[a].applied = h.approvals[a].applied
    <3> HIDE DEF gone
    <3> QED BY <1>4
  <2> HIDE DEF P, gone
  <2> QED BY <2>2, <2>3
<1>6. Cardinality(W) \in Nat /\ \A i \in 1..Cardinality(W) : SetToSeq(W)[i] \in W
  <2>1. IsFiniteSet(Known(h))
    BY <1>1, FS_Interval DEF Known
  <2>2. W \subseteq Known(h)
    BY DEF pendingOf
  <2>3. IsFiniteSet(W)
    <3> HIDE DEF W
    <3> QED BY <2>1, <2>2, FS_Subset
  <2> HIDE DEF W
  <2> QED BY <2>3, SetToSeqType
<1>7. /\ R \in Seq(Jobs) /\ Len(R) \in Nat
      /\ \A i \in 1..Len(R) : R[i].op = "resolve" /\ R[i].a \in gone
  <2>1. \A i \in 1..Cardinality(W) : SetToSeq(W)[i] \in gone /\ SetToSeq(W)[i] \in Ids
    <3>1. \A w \in W : w \in gone /\ w \in Ids
      BY <1>1
    <3> HIDE DEF W, gone
    <3> QED BY <1>6, <3>1
  <2>2. \A x \in Ids : job("resolve", x) \in Jobs /\ job("resolve", x).op = "resolve"
                       /\ job("resolve", x).a = x
    BY DEF job, Jobs
  <2>3. R \in [1..Cardinality(W) -> Jobs]
        /\ \A i \in 1..Cardinality(W) : R[i].op = "resolve" /\ R[i].a \in gone
    <3> HIDE DEF W, gone
    <3> QED BY <2>1, <2>2
  <2> HIDE DEF R, W, gone
  <2> QED BY <1>6, <2>3
<1> HIDE DEF R
<1>8. /\ J \in Seq(Jobs) /\ Len(J) = Len(h.jobs) + Len(R) /\ Len(h.jobs) \in Nat
      /\ \A i \in 1..Len(h.jobs) : J[i] = h.jobs[i]
      /\ \A i \in (Len(h.jobs) + 1)..Len(J) : i - Len(h.jobs) \in 1..Len(R) /\ J[i] = R[i - Len(h.jobs)]
  BY <1>1, <1>7, MoreJobs
<1>9. gone \subseteq Known(h)
  BY DEF pendingOf
<1> HIDE DEF P, J, gone, W
<1>10. k \in Holding /\ k.approvals = P /\ k.waiters = h.waiters \ gone /\ k.jobs = J
  <2>1. h.waiters \ gone \in SUBSET Ids
    BY <1>1
  <2> DEFINE V == h.waiters \ gone
  <2> HIDE DEF V
  <2>2. V \in SUBSET Ids /\ k = Withdrawal(h, P, V, J)
    BY <1>2, <2>1 DEF V
  <2>3. k \in Holding /\ k.approvals = P /\ k.waiters = V /\ k.jobs = J
    BY <1>1, <1>5, <1>8, <2>2, WithWithdrawal
  <2> QED BY <2>3 DEF V
<1>11. \A i \in (Len(h.jobs) + 1)..Len(J) : J[i].op = "resolve" /\ J[i].a \in gone
  BY <1>7, <1>8
<1>12. Evolve(h, k, {t})
  <2>1. Len(h.jobs) <= Len(J) /\ h.waiters \ gone \subseteq h.waiters
    BY <1>7, <1>8
  <2>2. \A i \in (Len(h.jobs) + 1)..Len(J) :
          /\ J[i].op \in {"resolve", "route"} /\ J[i].a \in Known(h)
          /\ h.approvals[J[i].a].status = "pending"
          /\ P[J[i].a].status # "pending"
    <3> TAKE i \in (Len(h.jobs) + 1)..Len(J)
    <3>1. J[i].op = "resolve" /\ J[i].a \in gone /\ J[i].a \in Known(h)
      BY <1>9, <1>11
    <3>2. P[J[i].a].status = "cancelled" /\ h.approvals[J[i].a].status = "pending"
      BY <1>3, <1>5, <3>1
    <3> QED BY <3>1, <3>2
  <2>3. \A a \in Known(h) :
          \/ P[a] = h.approvals[a]
          \/ /\ h.approvals[a].status = "pending" /\ P[a].status = "cancelled"
             /\ targetOfApproval(h.approvals[a].gate) \in {t}
    BY <1>3, <1>5
  <2> QED BY <1>5, <1>8, <1>10, <2>1, <2>2, <2>3 DEF Evolve
<1>13. \A a \in Known(h) : IF a \in gone THEN k.approvals[a].status = "cancelled"
                                         ELSE k.approvals[a] = h.approvals[a]
  BY <1>5, <1>10
<1> QED BY <1>12, <1>13 DEF gone

\* With no job nothing is on its way.
LEMMA IdleHas ==
  ASSUME NEW h, h.jobs = <<>>
  PROVE  \A ops, a : ~Has(h, {}, ops, a)
BY DEF Has

\* What handleTransitionSideEffects does, but for a task that enters review.
LEMMA SideEffectsEvolve ==
  ASSUME NEW h, NEW X, NEW to, Shape(h, X), to # "review",
         NEW k, k = handleTransitionSideEffects(h, to)
  PROVE  Evolve(h, k, IF to \in TERMINAL THEN {"task"} ELSE {})
<1>1. k = cleanupOnLeaveStatus(h, to)
  BY DEF handleTransitionSideEffects, notifyHumanReviewer
<1>2. CASE to \in TERMINAL
  BY <1>1, <1>2, CancelEvolves DEF cleanupOnLeaveStatus
<1>3. CASE to \notin TERMINAL
  BY <1>1, <1>3, EvolveNothing DEF cleanupOnLeaveStatus, Shape
<1> QED BY <1>2, <1>3

\* The shape of the registry outlives answers and withdrawals.
LEMMA EvolveShape ==
  ASSUME NEW h, NEW k, NEW X, NEW T, Shape(h, X), Evolve(h, k, T)
  PROVE  Shape(k, X)
<1>1. /\ k \in Holding /\ h \in Holding /\ Known(k) = Known(h) /\ Len(k.jobs) \in Nat /\ Len(h.jobs) \in Nat
      /\ k.waiters \subseteq h.waiters /\ Len(k.approvals) = Len(h.approvals)
  <2>1. k \in Holding /\ h \in Holding
    BY DEF Evolve, Shape
  <2> QED BY <2>1, HoldingParts DEF Evolve, Known
<1>2. \A i \in 1..Len(k.jobs) : k.jobs[i].a \in Known(h)
  BY <1>1 DEF Evolve, Shape
<1> QED BY <1>1, <1>2 DEF Shape

\* What Settle does to the registry.
LEMMA SettleEvolves ==
  ASSUME NEW h, NEW X, NEW t \in Targets, NEW intent \in Intents, Shape(h, X),
         NEW r \in Answered(h, t, intent), NEW to, to # "review",
         NEW k, k = IF t = "task" THEN handleTransitionSideEffects(r, to) ELSE r
  PROVE  Evolve(h, k, IF t = "task" /\ to \in TERMINAL THEN {"task"} ELSE {})
<1>1. \A T : Evolve(h, r, T)
  <2>1. CASE pendingOf(h, t) = {}
    BY <2>1, EvolveNothing DEF Answered, Shape
  <2>2. CASE pendingOf(h, t) # {}
    <3>1. PICK a \in pendingOf(h, t) : r = respondToApproval(h, a, intent)
      BY <2>2 DEF Answered
    <3>2. a \in Known(h) /\ h.approvals[a].status = "pending"
      BY DEF pendingOf
    <3> QED BY <3>1, <3>2, RespondEvolves
  <2> QED BY <2>1, <2>2
<1>2. CASE t # "task"
  BY <1>1, <1>2
<1>3. CASE t = "task"
  <2> DEFINE T == IF to \in TERMINAL THEN {"task"} ELSE {}
  <2>1. Shape(r, X) /\ h \in Holding
    BY <1>1, EvolveShape DEF Shape
  <2>2. Evolve(r, k, T)
    BY <1>3, <2>1, SideEffectsEvolve
  <2>3. Evolve(h, k, {} \union T)
    <3> HIDE DEF T
    <3>1. Evolve(h, r, {})
      BY <1>1
    <3> QED BY <2>1, <2>2, <3>1, EvolveTwice
  <2>4. {} \union T = T /\ T = IF t = "task" /\ to \in TERMINAL THEN {"task"} ELSE {}
    BY <1>3
  <2> HIDE DEF T
  <2> QED BY <2>3, <2>4
<1> QED BY <1>2, <1>3

\* The registry with a new approval and its promise.
Opened(h, P, W) == [h EXCEPT !.approvals = P, !.waiters = W]

\* A new approval leaves a registry of the same type.
LEMMA WithOpened ==
  ASSUME NEW h \in Holding, NEW P \in Seq(Approval), NEW W \in SUBSET Ids
  PROVE  /\ Opened(h, P, W) \in Holding
         /\ Opened(h, P, W).approvals = P
         /\ Opened(h, P, W).waiters = W
         /\ Opened(h, P, W).jobs = h.jobs
<1> DEFINE k == Opened(h, P, W)
           A == Seq(Approval)
           B == SUBSET Ids
           C == Seq(Jobs)
<1>1. h \in [approvals : A, waiters : B, jobs : C] /\ P \in A /\ W \in B
  BY DEF Holding
<1>2. k = [h EXCEPT !.approvals = P, !.waiters = W]
  BY DEF Opened
<1> HIDE DEF A, B, C, k
<1>3. /\ k \in [approvals : A, waiters : B, jobs : C]
      /\ k.approvals = P /\ k.waiters = W /\ k.jobs = h.jobs
  BY <1>1, <1>2
<1> QED BY <1>3 DEF Holding, A, B, C, k

\* A gate opens an approval, when no job is left.
LEMMA RequestInv ==
  ASSUME NEW S, NEW Z, NEW h, NEW O, NEW F, NEW L, HInv(S, h, {}, O, F, L),
         h.jobs = <<>>, Len(h.approvals) < MaxApprovals,
         NEW gate \in Gates, NEW k, k = requestApprovalAndWait(h, gate),
         \/ /\ gate = "task" /\ Z.task = "pending" /\ pendingOf(h, "task") = {}
            /\ \A a \in Known(h) : h.approvals[a].gate # "task_review"
         \/ gate = "task_review" /\ Z.task = "review"
         \/ gate \notin {"task", "task_review"} /\ Z.task = S.task
  PROVE  HInv(Z, k, {}, O, F, L)
<1> DEFINE new == [gate |-> gate, status |-> "pending", intent |-> "none", applied |-> FALSE]
           n == Len(h.approvals) + 1
           P == Append(h.approvals, new)
           W == h.waiters \union {n}
<1>1. /\ h \in Holding /\ h.approvals \in Seq(Approval) /\ h.waiters \in SUBSET Ids
      /\ h.waiters \subseteq Known(h) /\ \A a \in Known(h) : a \in Ids
      /\ \A a \in Known(h) : h.approvals[a] \in Approval
  <2>1. Shape(h, {})
    BY DEF HInv
  <2>2. h \in Holding /\ h.waiters \subseteq Known(h)
    BY <2>1 DEF Shape
  <2> QED BY <2>1, <2>2, HoldingParts, KnownIds
<1>2. n \in Nat /\ n \in Ids /\ n <= MaxApprovals /\ n \notin Known(h)
  BY <1>1, ApprovalAssumption DEF Known, Ids
<1>3. /\ new \in Approval /\ new.gate = gate /\ new.status = "pending" /\ new.applied = FALSE
  BY DEF Approval, ApprovalStatus
<1>4. /\ P \in Seq(Approval) /\ Len(P) = n /\ P[n] = new
      /\ \A a \in Known(h) : P[a] = h.approvals[a]
  <2> HIDE DEF new
  <2> QED BY <1>1, <1>3 DEF Known
<1>5. k = Opened(h, P, W)
  BY DEF requestApprovalAndWait, Opened
<1>6. W \in SUBSET Ids
  BY <1>1, <1>2
<1> HIDE DEF new, n, P, W
<1>7. k \in Holding /\ k.approvals = P /\ k.waiters = W /\ k.jobs = <<>>
  BY <1>1, <1>4, <1>5, <1>6, WithOpened
<1>8. /\ Known(k) = Known(h) \union {n} /\ n \in Known(k)
      /\ \A a \in Known(k) : a # n => a \in Known(h)
  BY <1>2, <1>4, <1>7 DEF Known, n
<1>9. /\ \A ops, a : ~Has(k, {}, ops, a)
      /\ \A ops, a : ~Has(h, {}, ops, a)
  BY <1>7, IdleHas
<1>10. /\ \A a \in Known(h) : /\ k.approvals[a] = h.approvals[a]
                              /\ (IsDecided(k, a) <=> IsDecided(h, a)) /\ Does(k, a) = Does(h, a)
       /\ k.approvals[n] = new /\ ~IsDecided(k, n)
  BY <1>3, <1>4, <1>7 DEF IsDecided, Does
<1>11. F[n] = <<>> /\ O[n] = "none"
  BY <1>2 DEF HInv, Once, Recorded
<1>12. Shape(k, {})
  BY <1>1, <1>2, <1>4, <1>7, <1>8 DEF Shape, W
<1>13. Once(k, {}, F)
  <2>1. /\ \A a \in Ids : Len(F[a]) <= 1
        /\ \A a \in Known(h) : F[a] # <<>> => h.approvals[a].applied
        /\ \A a \in Ids \ Known(h) : F[a] = <<>>
    BY DEF HInv, Once
  <2>2. /\ \A a \in Known(k) : F[a] # <<>> => k.approvals[a].applied
        /\ \A a \in Ids \ Known(k) : F[a] = <<>>
    BY <1>8, <1>10, <1>11, <2>1
  <2> QED BY <1>7, <1>9, <2>1, <2>2 DEF Once
<1>14. Recorded(k, {}, O)
  <2>1. /\ \A a \in Known(h) : h.approvals[a].status = "pending" =>
             ~h.approvals[a].applied /\ O[a] = "none"
        /\ \A a \in Known(h) : IsDecided(h, a) =>
             h.approvals[a].intent \in Intents
             /\ h.approvals[a].status = intentToApprovalStatus(h.approvals[a].intent)
        /\ \A a \in Known(h) : h.approvals[a].applied => IsDecided(h, a)
        /\ \A a \in Ids \ Known(h) : O[a] = "none"
    BY DEF HInv, Recorded
  <2>2. \A a \in Known(k) : k.approvals[a].status = "pending" =>
          ~k.approvals[a].applied /\ O[a] = "none"
    BY <1>3, <1>8, <1>10, <1>11, <2>1
  <2>3. \A a \in Known(k) : IsDecided(k, a) =>
          k.approvals[a].intent \in Intents
          /\ k.approvals[a].status = intentToApprovalStatus(k.approvals[a].intent)
    BY <1>8, <1>10, <2>1
  <2>4. \A a \in Known(k) : k.approvals[a].applied => IsDecided(k, a)
    BY <1>3, <1>8, <1>10, <2>1
  <2> QED BY <1>8, <1>9, <2>1, <2>2, <2>3, <2>4 DEF Recorded
<1>15. Said(k, F)
  <2>1. \A i \in 1..Len(F[n]) : FALSE
    BY <1>11
  <2> QED BY <1>8, <1>10, <2>1 DEF HInv, Said
<1>16. Away(Z, k, {})
  BY <1>9 DEF Away
<1>17. Routed(k, {}, O, L)
  BY <1>3, <1>8, <1>9, <1>10 DEF HInv, Routed
<1>18. Gate(Z, k, {}, O, L)
  <2>1. CASE gate = "task" /\ Z.task = "pending" /\ pendingOf(h, "task") = {}
             /\ \A a \in Known(h) : h.approvals[a].gate # "task_review"
    <3>1. pendingOf(k, "task") \subseteq {n}
      BY <1>8, <1>10, <2>1 DEF pendingOf
    <3>2. \A b \in Known(k) : b <= n
      BY <1>2, <1>4, <1>7 DEF Known
    <3>3. LastGate(k, {}, O, L, n)
      BY <1>3, <1>10, <2>1, <3>1, <3>2 DEF LastGate
    <3> QED BY <1>3, <1>8, <1>10, <2>1, <3>3 DEF Gate
  <2>2. CASE gate = "task_review" /\ Z.task = "review"
    BY <2>2 DEF Gate
  <2>3. CASE gate \notin {"task", "task_review"} /\ Z.task = S.task
    <3>1. targetOfApproval(gate) # "task" /\ gate # "task" /\ gate # "task_review"
      BY <2>3 DEF targetOfApproval
    <3>2. ASSUME NEW g \in Known(h), LastGate(h, {}, O, L, g) PROVE LastGate(k, {}, O, L, g)
      <4>1. pendingOf(k, "task") \subseteq pendingOf(h, "task")
        BY <1>3, <1>8, <1>10, <3>1 DEF pendingOf
      <4> QED BY <1>3, <1>8, <1>9, <1>10, <3>1, <3>2, <4>1 DEF LastGate
    <3> QED BY <1>3, <1>8, <1>10, <2>3, <3>1, <3>2 DEF HInv, Gate
  <2> QED BY <2>1, <2>2, <2>3
<1> QED BY <1>12, <1>13, <1>14, <1>15, <1>16, <1>17, <1>18 DEF HInv

\* The process restarts: jobs and promises are gone, and M names at least the
\* decisions that this caught half way.  Open approvals in M
\* may have been withdrawn.
LEMMA RestartInv ==
  ASSUME NEW S, NEW h, NEW k \in Holding, NEW O, NEW F, NEW L, NEW M, HInv(S, h, {}, O, F, L),
         k.jobs = <<>>, k.waiters = {}, Len(k.approvals) = Len(h.approvals), L \subseteq M,
         \A a \in Known(h) : /\ k.approvals[a].gate = h.approvals[a].gate
                             /\ k.approvals[a].applied = h.approvals[a].applied,
         \A a \in Known(h) : \/ k.approvals[a] = h.approvals[a]
                             \/ /\ h.approvals[a].status = "pending" /\ a \in M
                                /\ k.approvals[a].status = "cancelled",
         \A a \in Known(h) : IsDecided(h, a) /\ O[a] = "none" => a \in M \/ h.jobs = <<>>
  PROVE  HInv(S, k, {}, O, F, M)
<1>1. /\ Known(k) = Known(h) /\ h \in Holding
      /\ \A a \in Known(h) : a \in Ids /\ h.approvals[a] \in Approval
  <2>1. Shape(h, {}) /\ h \in Holding
    BY DEF HInv, Shape
  <2> QED BY <2>1, HoldingParts, KnownIds DEF Known
<1>2. /\ \A ops, a : ~Has(k, {}, ops, a)
      /\ h.jobs = <<>> => \A ops, a : ~Has(h, {}, ops, a)
  BY IdleHas
<1>3. /\ \A a \in Known(h) : IsDecided(h, a) => k.approvals[a] = h.approvals[a]
      /\ \A a \in Known(h) : IsDecided(k, a) => k.approvals[a] = h.approvals[a]
      /\ \A a \in Known(h) : k.approvals[a].status = "pending" => k.approvals[a] = h.approvals[a]
  BY DEF IsDecided
<1>4. \A a \in Known(h) : IsDecided(h, a) => IsDecided(k, a) /\ Does(k, a) = Does(h, a)
  BY <1>3 DEF IsDecided, Does
<1>5. \A a \in Known(h) : IsDecided(k, a) => IsDecided(h, a)
  BY <1>3 DEF IsDecided
<1>6. Shape(k, {})
  BY <1>1 DEF HInv, Shape
<1>7. Once(k, {}, F)
  <2>1. /\ \A a \in Ids : Len(F[a]) <= 1
        /\ \A a \in Known(h) : F[a] # <<>> => h.approvals[a].applied
        /\ \A a \in Ids \ Known(h) : F[a] = <<>>
    BY DEF HInv, Once
  <2> QED BY <1>1, <1>2, <2>1 DEF Once
<1>8. Recorded(k, {}, O)
  <2>1. /\ \A a \in Known(h) : h.approvals[a].status = "pending" =>
             ~h.approvals[a].applied /\ O[a] = "none"
        /\ \A a \in Known(h) : IsDecided(h, a) =>
             h.approvals[a].intent \in Intents
             /\ h.approvals[a].status = intentToApprovalStatus(h.approvals[a].intent)
        /\ \A a \in Known(h) : h.approvals[a].applied => IsDecided(h, a)
        /\ \A a \in Ids \ Known(h) : O[a] = "none"
    BY DEF HInv, Recorded
  <2>2. \A a \in Known(k) : k.approvals[a].status = "pending" =>
          ~k.approvals[a].applied /\ O[a] = "none"
    BY <1>1, <1>3, <2>1
  <2>3. \A a \in Known(k) : IsDecided(k, a) =>
          k.approvals[a].intent \in Intents
          /\ k.approvals[a].status = intentToApprovalStatus(k.approvals[a].intent)
    BY <1>1, <1>3, <1>5, <2>1
  <2>4. \A a \in Known(k) : k.approvals[a].applied => IsDecided(k, a)
    BY <1>1, <1>4, <2>1
  <2> QED BY <1>1, <1>2, <2>1, <2>2, <2>3, <2>4 DEF Recorded
<1>9. Said(k, F)
  BY <1>1, <1>4 DEF HInv, Said
<1>10. Away(S, k, {})
  BY <1>2 DEF Away
<1>11. Routed(k, {}, O, M)
  <2> SUFFICES ASSUME NEW a \in Known(h), O[a] = "none", a \notin M
               PROVE  ~IsDecided(h, a)
    <3>1. \A a \in Known(h) : k.approvals[a].applied => IsDecided(h, a)
      BY DEF HInv, Recorded
    <3> QED BY <1>1, <1>5, <3>1 DEF Routed
  <2>1. IsDecided(h, a) => Has(h, {}, {"route"} \union Work, a)
    BY DEF HInv, Routed
  <2> QED BY <1>2, <2>1
<1>12. Gate(S, k, {}, O, M)
  <2>1. ASSUME NEW g \in Known(h), LastGate(h, {}, O, L, g), S.task = "pending"
        PROVE  LastGate(k, {}, O, M, g)
    <3>1. /\ k.approvals[g].gate = "task"
          /\ \A b \in Known(k) : k.approvals[b].gate = "task" => b <= g
          /\ pendingOf(k, "task") \subseteq {g}
      <4>1. pendingOf(k, "task") \subseteq pendingOf(h, "task")
        BY <1>1, <1>3 DEF pendingOf
      <4> QED BY <1>1, <2>1, <4>1 DEF LastGate
    <3>2. k.approvals[g].status \in {"pending", "changes_requested"} \/ g \in M
      <4>1. CASE h.approvals[g].status \in {"pending", "changes_requested"}
        BY <4>1
      <4>2. CASE g \in L
        BY <4>2
      <4>3. CASE /\ O[g] = "none"
                 /\ \/ ~h.approvals[g].applied /\ Has(h, {}, {"route"}, g)
                    \/ Has(h, {}, {"port"}, g)
        <5>1. Has(h, {}, Ops, g)
          BY <4>3 DEF Has, Ops
        <5>2. h.approvals[g].status # "pending"
          BY <5>1 DEF HInv, Recorded
        <5>3. h.approvals[g].status # "cancelled"
          <6>1. targetOfApproval(h.approvals[g].gate) = "task" /\ S["task"] = "pending"
            BY <2>1 DEF LastGate, targetOfApproval
          <6> QED BY <5>1, <6>1 DEF HInv, Away
        <5> QED BY <1>2, <4>3, <5>1, <5>2, <5>3 DEF IsDecided
      <4> QED BY <2>1, <4>1, <4>2, <4>3 DEF LastGate
    <3> QED BY <3>1, <3>2 DEF LastGate
  <2> QED BY <1>1, <2>1 DEF HInv, Gate
<1> QED BY <1>6, <1>7, <1>8, <1>9, <1>10, <1>11, <1>12 DEF HInv

-----------------------------------------------------------------------------
(* The jobs. *)

\* The histories of an outcome and of an effect.
LEMMA Histories ==
  ASSUME Kinds, NEW a \in Ids
  PROVE  /\ \A o \in {"applied", "out-of-window", "failed"} : Finish(a, o) =>
              /\ outcome' \in [Ids -> {"none", "applied", "out-of-window", "failed"}]
              /\ outcome'[a] # "none"
              /\ \A b \in Ids \ {a} : outcome'[b] = outcome[b]
         /\ \A e \in {"approve", "reject", "changes"} : Effect(a, e) =>
              /\ effects' \in [Ids -> Seq({"approve", "reject", "changes"})]
              /\ effects'[a] = Append(effects[a], e)
              /\ \A b \in Ids \ {a} : effects'[b] = effects[b]
<1> DEFINE E == {"approve", "reject", "changes"}
<1>1. /\ outcome \in [Ids -> {"none", "applied", "out-of-window", "failed"}]
      /\ effects \in [Ids -> Seq(E)] /\ effects[a] \in Seq(E)
  BY DEF Kinds
<1>2. ASSUME NEW o \in {"applied", "out-of-window", "failed"}, Finish(a, o)
      PROVE  /\ outcome' \in [Ids -> {"none", "applied", "out-of-window", "failed"}]
             /\ outcome'[a] # "none"
             /\ \A b \in Ids \ {a} : outcome'[b] = outcome[b]
  BY <1>1, <1>2 DEF Finish
<1>3. ASSUME NEW e \in E, Effect(a, e)
      PROVE  /\ effects' \in [Ids -> Seq(E)]
             /\ effects'[a] = Append(effects[a], e)
             /\ \A b \in Ids \ {a} : effects'[b] = effects[b]
  <2>1. Append(effects[a], e) \in Seq(E)
    BY <1>1
  <2>2. effects' = [effects EXCEPT ![a] = Append(effects[a], e)]
    BY <1>3 DEF Effect
  <2> DEFINE v == Append(effects[a], e)
             Q == Seq(E)
  <2>3. v \in Q /\ effects \in [Ids -> Q] /\ effects' = [effects EXCEPT ![a] = v]
    BY <1>1, <2>1, <2>2
  <2> HIDE DEF v, Q
  <2>4. effects' \in [Ids -> Q] /\ effects'[a] = v /\ \A b \in Ids \ {a} : effects'[b] = effects[b]
    BY <2>3
  <2> QED BY <2>4 DEF v, Q
<1> QED BY <1>2, <1>3

\* A target is approved or rejected, along with an open approval of it.
LEMMA SettleInv ==
  ASSUME Kinds, NEW h, NEW X, HInv(status, h, X, outcome, effects, lost),
         NEW t \in Targets, NEW intent \in {"approve", "reject"}, Settle(h, t, intent)
  PROVE  /\ status' \in [Targets -> Status \union RequirementStatus \union {"absent"}]
         /\ HInv(status', hitl', X, outcome, effects, lost)
         /\ \A a \in Known(h) : IsDecided(h, a) => hitl'.approvals[a] = h.approvals[a]
         /\ status'[t] # "pending"
<1>1. PICK to \in (IF intent = "approve" THEN ApprovedAs(t) ELSE {"rejected"}), r \in Answered(h, t, intent) :
        /\ status' = [status EXCEPT ![t] = to]
        /\ hitl' = IF t = "task" THEN handleTransitionSideEffects(r, to) ELSE r
  BY DEF Settle
<1>2. to \in {"in_progress", "blocked", "completed", "rejected"}
  BY DEF ApprovedAs
<1>3. status \in [Targets -> Status \union RequirementStatus \union {"absent"}]
  BY DEF Kinds
<1>4. /\ status' \in [Targets -> Status \union RequirementStatus \union {"absent"}]
      /\ status'[t] = to /\ \A u \in Targets \ {t} : status'[u] = status[u]
  BY <1>1, <1>2, <1>3 DEF Status
<1> DEFINE T == IF t = "task" /\ to \in TERMINAL THEN {"task"} ELSE {}
<1>5. Evolve(h, hitl', T)
  <2>1. Shape(h, X) /\ to # "review" /\ intent \in Intents
    BY <1>2 DEF HInv, Intents
  <2> HIDE DEF Settle
  <2> QED BY <1>1, <2>1, SettleEvolves
<1>6. Moves(status, status', h, X, T)
  BY <1>2, <1>4 DEF Targets, Moves
<1> HIDE DEF T
<1>7. /\ HInv(status', hitl', X, outcome, effects, lost)
      /\ \A a \in Known(h) : IsDecided(h, a) => hitl'.approvals[a] = h.approvals[a]
  BY <1>5, <1>6, EvolveInv, EvolveKeeps
<1> QED BY <1>2, <1>4, <1>7

\* A job that carries a decision out is about one that was claimed.
LEMMA WorkIsDecided ==
  ASSUME NEW S, NEW h, NEW x, NEW O, NEW F, NEW L, HInv(S, h, {x}, O, F, L), x.op \in Work
  PROVE  /\ IsDecided(h, x.a) /\ x.a \in Known(h) /\ x.a \in Ids
         /\ h.approvals[x.a].gate \in Gates /\ h.approvals[x.a].intent \in Intents
         /\ h.approvals[x.a].status = intentToApprovalStatus(h.approvals[x.a].intent)
<1>1. Has(h, {x}, Work, x.a) /\ x.a \in Known(h) /\ x.a \in Ids
  BY RunningKnown DEF Has
<1>2. IsDecided(h, x.a)
  BY <1>1 DEF HInv, Once, Recorded
<1>3. h.approvals[x.a].gate \in Gates
  <2>1. h \in Holding
    BY DEF HInv, Shape
  <2> QED BY <1>1, <2>1, HoldingParts, ApprovalFields
<1> QED BY <1>1, <1>2, <1>3 DEF HInv, Recorded

\* The status that an approved review leads to, and a comment on a review.
LEMMA MoveInv ==
  ASSUME Kinds, NEW h, NEW X, HInv(status, h, X, outcome, effects, lost),
         NEW to \in {"completed", "in_progress"},
         status' = [status EXCEPT !.task = to], hitl' = handleTransitionSideEffects(h, to)
  PROVE  /\ status' \in [Targets -> Status \union RequirementStatus \union {"absent"}]
         /\ HInv(status', hitl', X, outcome, effects, lost)
         /\ \A a \in Known(h) : IsDecided(h, a) => hitl'.approvals[a] = h.approvals[a]
         /\ status'["task"] # "pending"
<1>1. status \in [Targets -> Status \union RequirementStatus \union {"absent"}] /\ "task" \in Targets
  BY DEF Kinds, Targets
<1>2. /\ status' \in [Targets -> Status \union RequirementStatus \union {"absent"}]
      /\ status'["task"] = to /\ \A u \in Targets \ {"task"} : status'[u] = status[u]
  BY <1>1 DEF Status
<1> DEFINE T == IF to \in TERMINAL THEN {"task"} ELSE {}
<1>3. Evolve(h, hitl', T)
  <2>1. Shape(h, X)
    BY DEF HInv
  <2> QED BY <2>1, SideEffectsEvolve
<1>4. Moves(status, status', h, X, T)
  BY <1>2 DEF Moves
<1> HIDE DEF T
<1> QED BY <1>2, <1>3, <1>4, EvolveInv, EvolveKeeps

\* What a port may do.
LEMMA PortInv ==
  ASSUME Kinds, NEW h, NEW x, HInv(status, h, {x}, outcome, effects, lost), x.op = "port", Port(h, x.a)
  PROVE  Kinds' /\ HInv(status, hitl, {}, outcome, effects, lost)'
<1> DEFINE a == x.a
           gate == h.approvals[a].gate
           what == applyApprovalDecision(gate, h.approvals[a].intent)
<1>1. /\ IsDecided(h, a) /\ a \in Known(h) /\ a \in Ids /\ gate \in Gates
      /\ h.approvals[a].intent \in Intents /\ x.op \in Work
  BY WorkIsDecided DEF Work
<1>2. what = Does(h, a) /\ what \in {"approve", "reject", "changes"}
  BY <1>1 DEF Does, applyApprovalDecision, Intents
<1>3. CASE what = "changes"
  <2>1. hitl' = [h EXCEPT !.jobs = Append(@, job("comment", a))]
        /\ UNCHANGED <<status, outcome, effects, lost>>
    BY <1>3 DEF Port
  <2> DEFINE y == job("comment", a)
  <2>2. y \in Jobs /\ y.op = "comment" /\ y.a = a
    BY <1>1 DEF job, Jobs
  <2> HIDE DEF y
  <2>3. HInv(status, h, {y}, outcome, effects, lost)
    BY <1>2, <1>3, <2>2, CommentPending
  <2>4. HInv(status, hitl', {}, outcome, effects, lost)
    BY <2>1, <2>3, PutInv DEF y
  <2> QED BY <2>1, <2>4 DEF Kinds
<1> DEFINE t == targetOfApproval(gate)
<1>4. t \in Targets
  BY <1>1, GateTargets
<1>5. ASSUME NEW u \in Targets, gate = "task" => u = "task",
             status' \in [Targets -> Status \union RequirementStatus \union {"absent"}],
             HInv(status', hitl', {x}, outcome, effects, lost),
             \A b \in Known(h) : IsDecided(h, b) => hitl'.approvals[b] = h.approvals[b],
             status'[u] # "pending",
             Finish(a, "applied"), Effect(a, what), UNCHANGED lost
      PROVE  Kinds' /\ HInv(status, hitl, {}, outcome, effects, lost)'
  <2>1. /\ outcome' \in [Ids -> {"none", "applied", "out-of-window", "failed"}]
        /\ outcome'[a] # "none" /\ \A b \in Ids \ {a} : outcome'[b] = outcome[b]
    BY <1>1, <1>5, Histories
  <2>2. /\ effects' \in [Ids -> Seq({"approve", "reject", "changes"})]
        /\ effects'[a] = Append(effects[a], what) /\ \A b \in Ids \ {a} : effects'[b] = effects[b]
    <3> HIDE DEF what
    <3> QED BY <1>1, <1>2, <1>5, Histories
  <2>3. hitl'.approvals[a] = h.approvals[a] /\ Does(hitl', a) = what
    BY <1>1, <1>2, <1>5 DEF Does
  <2>4. status'.task = "pending" /\ hitl'.approvals[a].gate = "task" =>
          hitl'.approvals[a].status = "changes_requested"
    BY <1>5, <2>3
  <2>5. HInv(status', hitl', {}, outcome', effects', lost)
    <3> HIDE DEF what, gate, t
    <3> QED BY <1>1, <1>5, <2>1, <2>2, <2>3, <2>4, DoneInv
  <2> QED BY <1>5, <2>1, <2>2, <2>5 DEF Kinds
<1>6. CASE what # "changes" /\ gate # "task_review"
  <2>1. Settle(h, t, what) /\ Finish(a, "applied") /\ Effect(a, what) /\ UNCHANGED lost
    BY <1>6 DEF Port
  <2>2. gate = "task" => t = "task"
    BY DEF targetOfApproval
  <2>3. what \in {"approve", "reject"}
    BY <1>2, <1>6
  <2> HIDE DEF what, t, gate
  <2>4. /\ status' \in [Targets -> Status \union RequirementStatus \union {"absent"}]
        /\ HInv(status', hitl', {x}, outcome, effects, lost)
        /\ \A b \in Known(h) : IsDecided(h, b) => hitl'.approvals[b] = h.approvals[b]
        /\ status'[t] # "pending"
    BY <1>4, <2>1, <2>3, SettleInv
  <2> QED BY <1>4, <1>5, <2>1, <2>2, <2>4
<1>7. CASE what # "changes" /\ gate = "task_review"
  <2>1. /\ status' = [status EXCEPT !.task = "completed"]
        /\ hitl' = handleTransitionSideEffects(h, "completed")
        /\ Finish(a, "applied") /\ Effect(a, what) /\ UNCHANGED lost
    BY <1>7 DEF Port
  <2>2. "task" \in Targets
    BY DEF Targets
  <2>3. /\ status' \in [Targets -> Status \union RequirementStatus \union {"absent"}]
        /\ HInv(status', hitl', {x}, outcome, effects, lost)
        /\ \A b \in Known(h) : IsDecided(h, b) => hitl'.approvals[b] = h.approvals[b]
        /\ status'["task"] # "pending"
    BY <2>1, MoveInv
  <2> HIDE DEF what, t, gate
  <2> QED BY <1>5, <2>1, <2>2, <2>3
<1> QED BY <1>3, <1>6, <1>7

\* What a comment may do.
LEMMA CommentInv ==
  ASSUME Kinds, NEW h, NEW x, HInv(status, h, {x}, outcome, effects, lost), x.op = "comment", Comment(h, x.a)
  PROVE  Kinds' /\ HInv(status, hitl, {}, outcome, effects, lost)'
<1> DEFINE a == x.a
           review == h.approvals[a].gate = "task_review"
<1>1. /\ IsDecided(h, a) /\ a \in Known(h) /\ a \in Ids /\ h.approvals[a].gate \in Gates
      /\ h.approvals[a].intent \in Intents /\ x.op \in Work
      /\ h.approvals[a].status = intentToApprovalStatus(h.approvals[a].intent)
  BY WorkIsDecided DEF Work
<1>2. Does(h, a) = "changes"
  <2>1. Has(h, {x}, {"comment"}, a)
    BY DEF Has
  <2> QED BY <1>1, <2>1 DEF HInv, Recorded
<1>3. h.approvals[a].gate = "task" => h.approvals[a].status = "changes_requested"
  BY <1>1, <1>2 DEF Does, applyApprovalDecision, intentToApprovalStatus, Intents
<1>4. CASE hitl' = h /\ Finish(a, "failed") /\ UNCHANGED <<status, effects, lost>>
  <2>1. /\ outcome' \in [Ids -> {"none", "applied", "out-of-window", "failed"}]
        /\ outcome'[a] # "none" /\ \A b \in Ids \ {a} : outcome'[b] = outcome[b]
    BY <1>1, <1>4, Histories
  <2>2. HInv(status, h, {}, outcome', effects, lost)
    BY <1>1, <1>3, <2>1, DoneInv
  <2> QED BY <1>4, <2>1, <2>2 DEF Kinds
<1>5. CASE /\ status' = IF review THEN [status EXCEPT !.task = "in_progress"] ELSE status
           /\ hitl' = IF review THEN handleTransitionSideEffects(h, "in_progress") ELSE h
           /\ Finish(a, "applied") /\ Effect(a, "changes")
           /\ UNCHANGED lost
  <2>1. /\ status' \in [Targets -> Status \union RequirementStatus \union {"absent"}]
        /\ HInv(status', hitl', {x}, outcome, effects, lost)
        /\ hitl'.approvals[a] = h.approvals[a]
    <3>1. CASE review
      BY <1>1, <1>5, <3>1, MoveInv
    <3>2. CASE ~review
      BY <1>5, <3>2 DEF Kinds
    <3> QED BY <3>1, <3>2
  <2>2. /\ outcome' \in [Ids -> {"none", "applied", "out-of-window", "failed"}]
        /\ outcome'[a] # "none" /\ \A b \in Ids \ {a} : outcome'[b] = outcome[b]
    BY <1>1, <1>5, Histories
  <2>3. /\ effects' \in [Ids -> Seq({"approve", "reject", "changes"})]
        /\ effects'[a] = Append(effects[a], "changes") /\ \A b \in Ids \ {a} : effects'[b] = effects[b]
    BY <1>1, <1>5, Histories
  <2>4. Does(hitl', a) = "changes"
    BY <1>2, <2>1 DEF Does
  <2>5. HInv(status', hitl', {}, outcome', effects', lost)
    BY <1>1, <1>3, <2>1, <2>2, <2>3, <2>4, DoneInv
  <2> QED BY <1>5, <2>1, <2>2, <2>3, <2>5 DEF Kinds
<1> QED BY <1>4, <1>5 DEF Comment

\* The next job of the event loop.
LEMMA RunJobInv == ASSUME Inv, runJob PROVE Inv'
<1> DEFINE x == Head(hitl.jobs)
           h == Rest(hitl)
<1>1. HInv(status, h, {x}, outcome, effects, lost) /\ Kinds
  BY TakeInv DEF Inv, runJob, Idle
<1>2. x.a \in Known(h) /\ x.a \in Ids /\ x \in Jobs
  BY <1>1, RunningKnown DEF HInv, Shape
<1>3. CASE /\ x.op = "resolve"
           /\ hitl' = [h EXCEPT !.jobs = Append(@, job("then", x.a))]
           /\ UNCHANGED <<status, outcome, effects, lost>>
  <2> DEFINE y == job("then", x.a)
  <2>1. y \in Jobs /\ y.op = "then" /\ y.a = x.a
    BY <1>2 DEF job, Jobs
  <2>2. hitl' = [h EXCEPT !.jobs = Append(@, y)]
    BY <1>3
  <2> HIDE DEF x, h, y
  <2>3. HInv(status, h, {y}, outcome, effects, lost)
    <3>1. x.op \in {"resolve", "then"} /\ \E z \in Jobs : {y} = {z} /\ z.op = "then" /\ z.a = x.a
      BY <1>3, <2>1
    <3> QED BY <1>1, <3>1, PassInv
  <2>4. HInv(status, hitl', {}, outcome, effects, lost)
    BY <2>2, <2>3, PutInv
  <2> QED BY <1>1, <1>3, <2>4 DEF Inv, Kinds
<1>4. CASE x.op = "then" /\ hitl' = h /\ UNCHANGED <<status, outcome, effects, lost>>
  <2> HIDE DEF x, h
  <2>1. HInv(status, h, {}, outcome, effects, lost)
    BY <1>1, <1>4, PassInv
  <2> QED BY <1>1, <1>4, <2>1 DEF Inv, Kinds
<1>5. CASE x.op \in {"then", "route"} /\ Apply(h, x.a)
  <2> HIDE DEF x, h
  <2>1. Brings(h, {x}, x.a)
    BY <1>2, <1>5 DEF Brings
  <2>2. Kinds' /\ HInv(status, hitl, {}, outcome, effects, lost)'
    BY <1>1, <1>5, <2>1, ApplyInv
  <2> QED BY <2>2 DEF Inv
<1>6. CASE x.op = "port" /\ Port(h, x.a)
  <2> HIDE DEF x, h
  <2>1. Kinds' /\ HInv(status, hitl, {}, outcome, effects, lost)'
    BY <1>1, <1>6, PortInv
  <2> QED BY <2>1 DEF Inv
<1>7. CASE x.op = "comment" /\ Comment(h, x.a)
  <2> HIDE DEF x, h
  <2>1. Kinds' /\ HInv(status, hitl, {}, outcome, effects, lost)'
    BY <1>1, <1>7, CommentInv
  <2> QED BY <2>1 DEF Inv
<1> QED BY <1>3, <1>4, <1>5, <1>6, <1>7 DEF runJob

-----------------------------------------------------------------------------
(* The requests. *)

\* A request between the jobs changes the status, answers and withdraws.
LEMMA IdleMove ==
  ASSUME Inv, Idle, Unrecorded, NEW T, Evolve(hitl, hitl', T),
         status' \in [Targets -> Status \union RequirementStatus \union {"absent"}],
         \A t \in T : status'[t] \notin {"pending", "review"},
         status'["task"] \in {"absent", "pending"} => status'["task"] = status["task"]
  PROVE  Inv'
<1>1. Moves(status, status', hitl, {}, T)
  BY DEF Moves, Idle
<1>2. HInv(status', hitl', {}, outcome, effects, lost)
  BY <1>1, EvolveInv DEF Inv
<1> QED BY <1>2 DEF Inv, Kinds, Unrecorded

\* The parts of the invariant that a request starts from.
LEMMA IdleParts ==
  ASSUME Inv
  PROVE  /\ Kinds /\ HInv(status, hitl, {}, outcome, effects, lost) /\ Shape(hitl, {}) /\ hitl \in Holding
         /\ \A T : Evolve(hitl, hitl, T)
         /\ status \in [Targets -> Status \union RequirementStatus \union {"absent"}]
         /\ status.task = "absent" => \A a \in Known(hitl) : targetOfApproval(hitl.approvals[a].gate) # "task"
         /\ status.task = "pending" => \A a \in Known(hitl) : hitl.approvals[a].gate # "task_review"
BY EvolveNothing DEF Inv, HInv, Kinds, Gate, Shape

\* A task, or a requirement, is created with its gate.
LEMMA CreateInv == ASSUME Inv, NEW t \in Targets, create(t) PROVE Inv'
<1>1. /\ status' = [status EXCEPT ![t] = "pending"] /\ status[t] = "absent"
      /\ hitl' = requestApprovalAndWait(hitl, t) /\ hitl.jobs = <<>>
      /\ Len(hitl.approvals) < MaxApprovals /\ UNCHANGED <<outcome, effects, lost>>
  BY DEF create, Idle, Room, Unrecorded
<1>2. /\ status' \in [Targets -> Status \union RequirementStatus \union {"absent"}]
      /\ status'[t] = "pending" /\ \A u \in Targets \ {t} : status'[u] = status[u]
      /\ t \in Gates
  BY <1>1, IdleParts DEF Status, Targets, Gates
<1>3. CASE t = "task"
  <2>1. \A a \in Known(hitl) : targetOfApproval(hitl.approvals[a].gate) # "task"
    BY <1>1, <1>3, IdleParts
  <2>2. pendingOf(hitl, "task") = {}
    BY <2>1 DEF pendingOf
  <2>3. \A a \in Known(hitl) : hitl.approvals[a].gate # "task_review"
    BY <2>1 DEF targetOfApproval
  <2>4. HInv(status', hitl', {}, outcome, effects, lost)
    BY <1>1, <1>2, <1>3, <2>2, <2>3, IdleParts, RequestInv
  <2> QED BY <1>1, <1>2, <2>4, IdleParts DEF Inv, Kinds
<1>4. CASE t # "task"
  <2>1. t \notin {"task", "task_review"} /\ status'.task = status.task
    BY <1>2, <1>4 DEF Targets
  <2>2. HInv(status', hitl', {}, outcome, effects, lost)
    BY <1>1, <1>2, <2>1, IdleParts, RequestInv
  <2> QED BY <1>1, <1>2, <2>2, IdleParts DEF Inv, Kinds
<1> QED BY <1>3, <1>4

\* A decision is posted: it is recorded and reaches the applier at once.
LEMMA PostInv ==
  ASSUME Inv, NEW a \in Known(hitl), NEW option \in Intents \union {"none"}, NEW approved \in BOOLEAN,
         postApproval(a, option, approved)
  PROVE  Inv'
<1> DEFINE intent == resolveApprovalIntent(hitl.approvals[a].gate, option, approved)
           r == respondToApproval(hitl, a, intent)
<1>1. hitl.approvals[a].status = "pending" /\ Idle /\ Apply(r, a)
  BY DEF postApproval
<1>2. intent \in Intents
  BY DEF resolveApprovalIntent, Intents
<1> HIDE DEF intent
<1>3. Evolve(hitl, r, {}) /\ IsDecided(r, a)
  BY <1>1, <1>2, IdleParts, RespondEvolves
<1> HIDE DEF r
<1>4. Moves(status, status, hitl, {}, {})
  BY DEF Moves
<1>5. HInv(status, r, {}, outcome, effects, lost)
  BY <1>3, <1>4, IdleParts, EvolveInv
<1>6. Brings(r, {}, a)
  <2>1. Len(r.approvals) = Len(hitl.approvals)
    BY <1>3 DEF Evolve
  <2> QED BY <2>1 DEF Brings, Known
<1>7. Kinds' /\ HInv(status, hitl, {}, outcome, effects, lost)'
  BY <1>1, <1>3, <1>5, <1>6, IdleParts, ApplyInv
<1> QED BY <1>7 DEF Inv

\* A decision is tapped on a card: it is recorded.
LEMMA TapInv ==
  ASSUME Inv, NEW a \in Known(hitl), NEW option \in Intents, tapCard(a, option)
  PROVE  Inv'
<1> DEFINE intent == resolveApprovalIntent(hitl.approvals[a].gate, option, option = "approve")
<1>1. /\ hitl.approvals[a].status = "pending" /\ Idle /\ Unrecorded /\ UNCHANGED status
      /\ hitl' = respondToApproval(hitl, a, intent)
  BY DEF tapCard
<1>2. intent \in Intents
  BY DEF resolveApprovalIntent, Intents
<1> HIDE DEF intent
<1>3. Evolve(hitl, hitl', {})
  BY <1>1, <1>2, IdleParts, RespondEvolves
<1> QED BY <1>1, <1>3, IdleParts, IdleMove

\* A target is approved or rejected at its own endpoint.
LEMMA DecideInv ==
  ASSUME Inv, NEW t \in Targets, NEW intent \in {"approve", "reject"}, decideDirectly(t, intent)
  PROVE  Inv'
<1>1. Settle(hitl, t, intent) /\ UNCHANGED <<outcome, effects, lost>>
  BY DEF decideDirectly, Unrecorded
<1>2. /\ status' \in [Targets -> Status \union RequirementStatus \union {"absent"}]
      /\ HInv(status', hitl', {}, outcome, effects, lost)
  BY <1>1, IdleParts, SettleInv
<1> QED BY <1>1, <1>2, IdleParts DEF Inv, Kinds

\* Another gate is opened.
LEMMA AskInv ==
  ASSUME Inv, requestTaskApproval \/ requestRequirementApproval \/ resubmitRequirement
  PROVE  Inv'
<1>1. CASE requestTaskApproval
  <2>1. /\ hitl.jobs = <<>> /\ Len(hitl.approvals) < MaxApprovals /\ status.task = "pending"
        /\ pendingOf(hitl, "task") = {} /\ UNCHANGED <<status, outcome, effects, lost>>
        /\ hitl' = requestApprovalAndWait(hitl, "task") /\ "task" \in Gates
    BY <1>1 DEF requestTaskApproval, Idle, Room, Unrecorded, Gates
  <2>2. HInv(status, hitl', {}, outcome, effects, lost)
    BY <2>1, IdleParts, RequestInv
  <2> QED BY <2>1, <2>2, IdleParts DEF Inv, Kinds
<1>2. CASE requestRequirementApproval \/ resubmitRequirement
  <2>1. PICK gate \in {"requirement", "requirement_resubmit"} :
          /\ hitl.jobs = <<>> /\ Len(hitl.approvals) < MaxApprovals
          /\ hitl' = requestApprovalAndWait(hitl, gate) /\ UNCHANGED <<outcome, effects, lost>>
          /\ status' = status \/ status' = [status EXCEPT !.requirement = "pending"]
    BY <1>2 DEF requestRequirementApproval, resubmitRequirement, Idle, Room, Unrecorded
  <2>2. gate \in Gates /\ gate \notin {"task", "task_review"}
    BY DEF Gates
  <2>3. /\ status' \in [Targets -> Status \union RequirementStatus \union {"absent"}]
        /\ status'.task = status.task
    BY <2>1, IdleParts DEF Status, Targets
  <2>4. HInv(status', hitl', {}, outcome, effects, lost)
    BY <2>1, <2>2, <2>3, IdleParts, RequestInv
  <2> QED BY <2>1, <2>3, <2>4, IdleParts DEF Inv, Kinds
<1> QED BY <1>1, <1>2

\* No status change leads to a pending task.
LEMMA NeverPending == \A s \in Status : transitions[s] \subseteq Status \ {"pending"}
BY DEF Status, transitions

\* Everyone else moves the task.
LEMMA MoveTaskInv == ASSUME Inv, NEW to \in Status, updateTaskStatus(to) PROVE Inv'
<1>1. /\ hitl.jobs = <<>> /\ Idle /\ Unrecorded /\ UNCHANGED <<outcome, effects, lost>>
      /\ status' = [status EXCEPT !.task = to] /\ hitl' = handleTransitionSideEffects(hitl, to)
      /\ to \in transitions[status.task] /\ status.task # "absent"
      /\ to = "review" => Len(hitl.approvals) < MaxApprovals
      /\ status.task = "pending" => to = "cancelled"
  BY DEF updateTaskStatus, Idle, Unrecorded, Room
<1>2. /\ status' \in [Targets -> Status \union RequirementStatus \union {"absent"}]
      /\ status'["task"] = to /\ \A u \in Targets \ {"task"} : status'[u] = status[u]
      /\ "task" \in Targets
  BY <1>1, IdleParts DEF Targets
<1>3. to # "pending" /\ to # "absent"
  <2>1. "task" \in DOMAIN status /\ status.task \in Status \union RequirementStatus
    BY <1>1, <1>2, IdleParts
  <2>2. status.task \in Status
    BY <2>1 DEF Status, RequirementStatus
  <2> QED BY <1>1, <2>2, NeverPending DEF Status
<1>4. CASE to # "review"
  <2> DEFINE T == IF to \in TERMINAL THEN {"task"} ELSE {}
  <2>1. Evolve(hitl, hitl', T)
    BY <1>1, <1>4, IdleParts, SideEffectsEvolve
  <2>2. \A u \in T : status'[u] \notin {"pending", "review"}
    BY <1>2, <1>3, <1>4
  <2> HIDE DEF T
  <2> QED BY <1>1, <1>2, <1>3, <2>1, <2>2, IdleMove
<1>5. CASE to = "review"
  <2>1. hitl' = requestApprovalAndWait(hitl, "task_review") /\ "task_review" \in Gates
    BY <1>1, <1>5 DEF handleTransitionSideEffects, cleanupOnLeaveStatus, notifyHumanReviewer, TERMINAL, Gates
  <2>2. status'.task = "review"
    BY <1>2, <1>5
  <2>3. HInv(status', hitl', {}, outcome, effects, lost)
    BY <1>1, <1>5, <2>1, <2>2, IdleParts, RequestInv
  <2> QED BY <1>1, <1>2, <2>3, IdleParts DEF Inv, Kinds
<1> QED BY <1>4, <1>5

\* The requirement is moved, or cancelled.
LEMMA MoveRequirementInv ==
  ASSUME Inv, (\E to \in RequirementStatus : updateRequirementStatus(to)) \/ cancelRequirement
  PROVE  Inv'
<1>1. CASE \E to \in RequirementStatus : updateRequirementStatus(to)
  <2>1. PICK to \in RequirementStatus :
          /\ Idle /\ Unrecorded /\ hitl' = hitl
          /\ status' = [status EXCEPT !.requirement = to]
    BY <1>1 DEF updateRequirementStatus
  <2>2. /\ status' \in [Targets -> Status \union RequirementStatus \union {"absent"}]
        /\ status'["task"] = status["task"]
    BY <2>1, IdleParts DEF Targets
  <2>3. Evolve(hitl, hitl', {})
    BY <2>1, IdleParts
  <2> QED BY <2>1, <2>2, <2>3, IdleMove
<1>2. CASE cancelRequirement
  <2>1. /\ Idle /\ Unrecorded /\ hitl' = cancelApprovalsByDetail(hitl, "requirement")
        /\ status' = [status EXCEPT !.requirement = "cancelled"]
    BY <1>2 DEF cancelRequirement
  <2>2. /\ status' \in [Targets -> Status \union RequirementStatus \union {"absent"}]
        /\ status'["task"] = status["task"] /\ status'["requirement"] = "cancelled"
    BY <2>1, IdleParts DEF Targets, RequirementStatus
  <2> DEFINE T == {"requirement"}
  <2>3. Evolve(hitl, hitl', T)
    BY <2>1, IdleParts, CancelEvolves
  <2>4. \A t \in T : status'[t] \notin {"pending", "review"}
    BY <2>2
  <2> HIDE DEF T
  <2> QED BY <2>1, <2>2, <2>3, <2>4, IdleMove
<1> QED BY <1>1, <1>2

-----------------------------------------------------------------------------
(* The process. *)

\* The registry after a restart.
LEMMA RestartedParts ==
  ASSUME NEW h \in Holding
  PROVE  /\ restarted(h) \in Holding /\ restarted(h).approvals = h.approvals
         /\ restarted(h).waiters = {} /\ restarted(h).jobs = <<>>
<1> DEFINE k == restarted(h)
           A == Seq(Approval)
           B == SUBSET Ids
           C == Seq(Jobs)
<1>1. h \in [approvals : A, waiters : B, jobs : C] /\ {} \in B /\ <<>> \in C
  BY DEF Holding
<1>2. k = [h EXCEPT !.waiters = {}, !.jobs = <<>>]
  BY DEF restarted
<1> HIDE DEF A, B, C, k
<1>3. /\ k \in [approvals : A, waiters : B, jobs : C]
      /\ k.approvals = h.approvals /\ k.waiters = {} /\ k.jobs = <<>>
  BY <1>1, <1>2
<1> QED BY <1>3 DEF Holding, A, B, C, k

\* The process is killed between two jobs, and starts again.
LEMMA CrashInv == ASSUME Inv, crash PROVE Inv'
<1>1. /\ hitl' = restarted(hitl) /\ UNCHANGED <<status, outcome, effects>>
      /\ lost' = lost \union {a \in Decided(hitl) : outcome[a] = "none"}
  BY DEF crash
<1>2. /\ hitl' \in Holding /\ hitl'.approvals = hitl.approvals
      /\ hitl'.waiters = {} /\ hitl'.jobs = <<>>
  BY <1>1, IdleParts, RestartedParts
<1>3. \A a \in Known(hitl) : IsDecided(hitl, a) /\ outcome[a] = "none" => a \in lost'
  BY <1>1 DEF IsDecided, Decided
<1>4. lost \subseteq lost' /\ lost' \subseteq Ids
  <2>1. \A a \in Known(hitl) : a \in Ids
    BY IdleParts, KnownIds
  <2> QED BY <1>1, <2>1, IdleParts DEF Kinds, Decided
<1>5. HInv(status, hitl', {}, outcome, effects, lost')
  BY <1>2, <1>3, <1>4, IdleParts, RestartInv
<1> QED BY <1>1, <1>4, <1>5, IdleParts DEF Inv, Kinds

\* It is killed while a task ends: its approvals are withdrawn, its status is old.
LEMMA CrashWhileEndingInv == ASSUME Inv, crashWhileEnding PROVE Inv'
<1> DEFINE k == cancelApprovalsByDetail(hitl, "task")
<1>1. /\ hitl' = restarted(k) /\ UNCHANGED <<status, outcome, effects>> /\ hitl.jobs = <<>>
      /\ lost' = lost \union pendingOf(hitl, "task")
  BY DEF crashWhileEnding, Idle
<1>2. /\ Evolve(hitl, k, {"task"})
      /\ \A a \in Known(hitl) : IF a \in pendingOf(hitl, "task") THEN k.approvals[a].status = "cancelled"
                                ELSE k.approvals[a] = hitl.approvals[a]
  <2>1. Shape(hitl, {}) /\ k = cancelApprovalsByDetail(hitl, "task")
    BY IdleParts
  <2> HIDE DEF k
  <2> QED BY <2>1, CancelEvolves
<1> HIDE DEF k
<1>3. /\ k \in Holding /\ Len(k.approvals) = Len(hitl.approvals)
      /\ \A a \in Known(hitl) : /\ k.approvals[a].gate = hitl.approvals[a].gate
                                /\ k.approvals[a].applied = hitl.approvals[a].applied
  BY <1>2 DEF Evolve
<1>4. /\ hitl' \in Holding /\ hitl'.approvals = k.approvals
      /\ hitl'.waiters = {} /\ hitl'.jobs = <<>>
  BY <1>1, <1>3, RestartedParts
<1>5. lost \subseteq lost' /\ lost' \subseteq Ids
  <2>1. \A a \in Known(hitl) : a \in Ids
    BY IdleParts, KnownIds
  <2> QED BY <1>1, <2>1, IdleParts DEF Kinds, pendingOf
<1>6. \A a \in Known(hitl) : \/ hitl'.approvals[a] = hitl.approvals[a]
                             \/ /\ hitl.approvals[a].status = "pending" /\ a \in lost'
                                /\ hitl'.approvals[a].status = "cancelled"
  BY <1>1, <1>2, <1>4 DEF pendingOf
<1>7. HInv(status, hitl', {}, outcome, effects, lost')
  BY <1>1, <1>3, <1>4, <1>5, <1>6, IdleParts, RestartInv
<1> QED BY <1>1, <1>5, <1>7, IdleParts DEF Inv, Kinds

-----------------------------------------------------------------------------
(* The theorems. *)

\* Inv holds before the first request.
LEMMA InitInv == Init => Inv
<1> SUFFICES ASSUME Init PROVE Inv
  OBVIOUS
<1>1. Kinds
  <2>1. \A t \in Targets : t \in {"task", "requirement"}
    BY DEF Targets
  <2> QED BY <2>1 DEF Init, Kinds, Targets
<1>2. hitl \in Holding /\ hitl.approvals = <<>> /\ hitl.waiters = {} /\ hitl.jobs = <<>>
  BY DEF Init, Holding
<1>3. Known(hitl) = {} /\ \A ops, a : ~Has(hitl, {}, ops, a)
  BY <1>2, IdleHas DEF Known
<1>4. Shape(hitl, {})
  BY <1>2, <1>3, ApprovalAssumption DEF Shape
<1>5. Once(hitl, {}, effects)
  BY <1>2, <1>3 DEF Once, Init
<1>6. Recorded(hitl, {}, outcome) /\ Said(hitl, effects) /\ Away(status, hitl, {})
  BY <1>3 DEF Recorded, Said, Away, Init
<1>7. Routed(hitl, {}, outcome, lost) /\ Gate(status, hitl, {}, outcome, lost)
  BY <1>3 DEF Routed, Gate, Init
<1> QED BY <1>1, <1>4, <1>5, <1>6, <1>7 DEF Inv, HInv

\* Every step keeps Inv.
LEMMA NextInv == Inv /\ [Next]_vars => Inv'
<1> SUFFICES ASSUME Inv, [Next]_vars PROVE Inv'
  OBVIOUS
<1> HIDE DEF Inv
<1>1. CASE runJob
  BY <1>1, RunJobInv
<1>2. CASE crash
  BY <1>2, CrashInv
<1>3. CASE crashWhileEnding
  BY <1>3, CrashWhileEndingInv
<1>4. CASE \E t \in {"task", "requirement"} : create(t)
  BY <1>4, CreateInv DEF Targets
<1>5. CASE \E a \in Known(hitl), option \in Intents \union {"none"} :
             \/ \E approved \in BOOLEAN : postApproval(a, option, approved)
             \/ option # "none" /\ tapCard(a, option)
  <2>1. PICK a \in Known(hitl), option \in Intents \union {"none"} :
          \/ \E approved \in BOOLEAN : postApproval(a, option, approved)
          \/ option # "none" /\ tapCard(a, option)
    BY <1>5
  <2>2. CASE \E approved \in BOOLEAN : postApproval(a, option, approved)
    BY <2>2, PostInv
  <2>3. CASE option # "none" /\ tapCard(a, option)
    BY <2>3, TapInv
  <2> QED BY <2>1, <2>2, <2>3
<1>6. CASE \E t \in {"task", "requirement"}, intent \in {"approve", "reject"} : decideDirectly(t, intent)
  BY <1>6, DecideInv DEF Targets
<1>7. CASE requestTaskApproval \/ requestRequirementApproval \/ resubmitRequirement
  BY <1>7, AskInv
<1>8. CASE \E to \in Status : updateTaskStatus(to)
  BY <1>8, MoveTaskInv
<1>9. CASE (\E to \in RequirementStatus : updateRequirementStatus(to)) \/ cancelRequirement
  BY <1>9, MoveRequirementInv
<1>10. CASE UNCHANGED vars
  <2>1. status' = status /\ hitl' = hitl /\ outcome' = outcome /\ effects' = effects /\ lost' = lost
    BY <1>10 DEF vars
  <2> QED BY <2>1 DEF Inv, Kinds
<1> QED BY <1>1, <1>2, <1>3, <1>4, <1>5, <1>6, <1>7, <1>8, <1>9, <1>10 DEF Next

\* Inv holds in every reachable state: a claimed decision has exactly one job
\* that carries it out, an unclaimed one has the router, the jobs of a withdrawn
\* one find the target gone, and the last gate of a pending task is known.
THEOREM ApprovalInvariant == Spec => []Inv
BY InitInv, NextInv, PTL DEF Spec

\* Of the request, the router and the promise that carry a decision to its
\* target, one acts: a decision takes effect at most once (claimApply).
THEOREM DecisionsApplyOnce == Spec => []AppliedOnce
<1>1. Inv => AppliedOnce
  BY DEF Inv, HInv, Once, AppliedOnce
<1> QED BY <1>1, ApprovalInvariant, PTL

\* What happened to a target is what the approval says: changes asked for never
\* end it, a review is never rejected, a withdrawn approval does nothing
\* (applyApprovalDecision).
THEOREM DecisionsMoveAsDecided == Spec => []MovedAsDecided
<1>1. ASSUME Inv PROVE MovedAsDecided
  <2> SUFFICES ASSUME NEW a \in Known(hitl), NEW i \in DOMAIN effects[a]
               PROVE  LET says == hitl.approvals[a].status
                          review == hitl.approvals[a].gate = "task_review"
                      IN CASE effects[a][i] = "approve" -> says = "approved"
                           [] effects[a][i] = "reject"  -> says = "rejected" /\ ~review
                           [] effects[a][i] = "changes" ->
                                says = "changes_requested" \/ (says = "rejected" /\ review)
    BY DEF MovedAsDecided
  <2>1. i \in 1..Len(effects[a]) /\ effects[a][i] \in {"approve", "reject", "changes"}
    <3>1. a \in Ids
      BY <1>1, IdleParts, KnownIds
    <3>2. effects[a] \in Seq({"approve", "reject", "changes"})
      BY <1>1, <3>1 DEF Inv, Kinds
    <3> QED BY <3>2
  <2>2. IsDecided(hitl, a) /\ effects[a][i] = Does(hitl, a)
    BY <1>1, <2>1 DEF Inv, HInv, Said
  <2>3. hitl.approvals[a].intent \in Intents
        /\ hitl.approvals[a].status = intentToApprovalStatus(hitl.approvals[a].intent)
    BY <1>1, <2>2 DEF Inv, HInv, Recorded
  <2> QED BY <2>1, <2>2, <2>3 DEF Does, applyApprovalDecision, intentToApprovalStatus, Intents
<1> QED BY <1>1, ApprovalInvariant, PTL

\* A recorded decision has reached the applier by the time its jobs are done,
\* unless the process was killed between them (decisionRouter).
THEOREM DecisionsAreRouted == Spec => []DecisionRouted
<1>1. ASSUME Inv PROVE DecisionRouted
  <2> SUFFICES ASSUME Idle, NEW a \in Known(hitl), IsDecided(hitl, a), outcome[a] = "none", a \notin lost
               PROVE  FALSE
    BY DEF DecisionRouted, Decided, IsDecided
  <2>1. Has(hitl, {}, {"route"} \union Work, a)
    BY <1>1 DEF Inv, HInv, Routed
  <2> QED BY <2>1, IdleHas DEF Idle
<1> QED BY <1>1, ApprovalInvariant, PTL

\* A task that waits for approval has one open gate, or was sent back by its
\* last one, or a crash came between (requestTaskApproval).
THEOREM OneGateIsOpen == Spec => []OneOpenGate
<1>1. ASSUME Inv PROVE OneOpenGate
  <2> SUFFICES ASSUME Idle, status.task = "pending"
               PROVE  LET gates == {a \in Known(hitl) : hitl.approvals[a].gate = "task"}
                          last == CHOOSE a \in gates : \A b \in gates : b <= a
                      IN /\ gates # {}
                         /\ pendingOf(hitl, "task") \subseteq {last}
                         /\ hitl.approvals[last].status \in {"pending", "changes_requested"} \/ last \in lost
    BY DEF OneOpenGate
  <2> DEFINE gates == {a \in Known(hitl) : hitl.approvals[a].gate = "task"}
             last == CHOOSE a \in gates : \A b \in gates : b <= a
  <2>1. PICK g \in Known(hitl) : LastGate(hitl, {}, outcome, lost, g)
    BY <1>1 DEF Inv, HInv, Gate
  <2>2. g \in gates /\ \A b \in gates : b <= g
    BY <2>1 DEF LastGate
  <2>3. last \in gates /\ \A b \in gates : b <= last
    BY <2>2
  <2>4. last = g
    <3>1. \A a \in gates : a \in Nat
      <4>1. Len(hitl.approvals) \in Nat
        BY <1>1, IdleParts, HoldingParts
      <4> QED BY <4>1 DEF Known
    <3> HIDE DEF gates, last
    <3> QED BY <2>2, <2>3, <3>1
  <2>5. hitl.approvals[g].status \in {"pending", "changes_requested"} \/ g \in lost
    BY <2>1, IdleHas DEF LastGate, Idle
  <2>6. pendingOf(hitl, "task") \subseteq {g}
    BY <2>1 DEF LastGate
  <2> HIDE DEF last, gates
  <2>7. /\ gates # {} /\ pendingOf(hitl, "task") \subseteq {last}
        /\ hitl.approvals[last].status \in {"pending", "changes_requested"} \/ last \in lost
    BY <2>2, <2>4, <2>5, <2>6
  <2> QED BY <2>7 DEF gates, last
<1> QED BY <1>1, ApprovalInvariant, PTL

=============================================================================
