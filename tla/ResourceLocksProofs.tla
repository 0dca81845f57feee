------------------------- MODULE ResourceLocksProofs -------------------------
(***************************************************************************)
(* Proof that the lock registry keeps conflicting critical sections apart, *)
(* leaks no lock, loses no grant and implements LockTable, for any chains, *)
(* requests, request lists and nesting depth.                              *)
(***************************************************************************)
EXTENDS ResourceLocks, FiniteSetTheorems, SequenceTheorems, TLAPS

Waiter == [req : LockRequest, chain : Chains]

\* The requests a chain has been granted and not released, with p, t and o for
\* the values of pc, todo and own.
Claims(c, p, t, o) ==
  {o[c][i].req : i \in 1..Len(o[c])}
    \union (IF p[c] = "granted" THEN {Head(t[c])} ELSE {})

\* Queues agree with the chains: who is queued waits for exactly that request,
\* and is queued once.
QueuesOK(q, p, t) ==
  /\ q \in [Domains -> Seq(Waiter)]
  /\ \A d \in Domains : \A i \in 1..Len(q[d]) :
       /\ p[q[d][i].chain] = "waiting"
       /\ t[q[d][i].chain] # <<>>
       /\ Head(t[q[d][i].chain]) = q[d][i].req
  /\ \A d, e \in Domains : \A i \in 1..Len(q[d]), j \in 1..Len(q[e]) :
       q[d][i].chain = q[e][j].chain => d = e /\ i = j

\* Held requests do not conflict, and every claim is one of them.
ActiveOK(a, p, t, o) ==
  /\ \A r, s \in a : r # s => ~locksConflict(r, s)
  /\ \A c \in Chains : Claims(c, p, t, o) \subseteq a
  /\ \A c \in Chains : p[c] = "granted" => t[c] # <<>>

\* No request is claimed twice.
ClaimsOK(p, t, o) ==
  /\ \A c, d \in Chains : c # d => Claims(c, p, t, o) \cap Claims(d, p, t, o) = {}
  /\ \A c \in Chains : \A i, j \in 1..Len(o[c]) : i # j => o[c][i].req # o[c][j].req
  /\ \A c \in Chains : \A i \in 1..Len(o[c]) :
       p[c] = "granted" => o[c][i].req # Head(t[c])

\* The frames of a chain are heights of its stack.
FramesOK ==
  \A c \in Chains :
    /\ \A i, j \in 1..Len(frames[c]) : i <= j => frames[c][i] <= frames[c][j]
    /\ \A i \in 1..Len(frames[c]) : frames[c][i] <= Len(own[c])

\* The inductive invariant.
Inv ==
  /\ TypeOK
  /\ QueuesOK(queues, pc, todo)
  /\ ActiveOK(active, pc, todo, own)
  /\ ClaimsOK(pc, todo, own)
  /\ FramesOK

PC == {"idle", "waiting", "granted", "running", "releasing"}

-----------------------------------------------------------------------------
\* Every request conflicts with itself (locksConflict).
LEMMA ConflictReflexive ==
  \A r \in LockRequest : locksConflict(r, r)
BY RequestAssumption DEF locksConflict

\* What is left of a sequence after its first k elements.
LEMMA DropSeq ==
  ASSUME NEW S, NEW s \in Seq(S), NEW k \in 0..Len(s)
  PROVE  /\ SubSeq(s, k + 1, Len(s)) \in Seq(S)
         /\ Len(SubSeq(s, k + 1, Len(s))) = Len(s) - k
         /\ \A i \in 1..(Len(s) - k) : SubSeq(s, k + 1, Len(s))[i] = s[i + k]
<1>1. \A i \in (k + 1)..Len(s) : s[i] \in S
  OBVIOUS
<1>2. k + 1 \in Int /\ Len(s) \in Int
  OBVIOUS
<1>3. /\ SubSeq(s, k + 1, Len(s)) \in Seq(S)
      /\ Len(SubSeq(s, k + 1, Len(s))) = IF k + 1 <= Len(s) THEN Len(s) - (k + 1) + 1 ELSE 0
      /\ \A i \in 1..(Len(s) - (k + 1) + 1) : SubSeq(s, k + 1, Len(s))[i] = s[(k + 1) + i - 1]
  BY <1>1, <1>2, SubSeqProperties
<1>4. k \in Int /\ k <= Len(s) /\ Len(s) - (k + 1) + 1 = Len(s) - k
  OBVIOUS
<1>5. \A i \in Int : (k + 1) + i - 1 = i + k
  BY <1>4
<1>6. Len(SubSeq(s, k + 1, Len(s))) = Len(s) - k
  <2>1. CASE k + 1 <= Len(s)
    BY <1>3, <1>4, <2>1
  <2>2. CASE ~(k + 1 <= Len(s))
    <3>1. k = Len(s)
      <4>1. \A x, y \in Int : x <= y /\ ~(x + 1 <= y) => x = y
        OBVIOUS
      <4> QED BY <1>2, <1>4, <2>2, <4>1
    <3>2. Len(s) - k = 0
      BY <1>2, <3>1
    <3> QED BY <1>3, <2>2, <3>2
  <2> QED BY <2>1, <2>2
<1>7. \A i \in 1..(Len(s) - k) : SubSeq(s, k + 1, Len(s))[i] = s[i + k]
  <2> TAKE i \in 1..(Len(s) - k)
  <2>1. SubSeq(s, k + 1, Len(s))[i] = s[(k + 1) + i - 1]
    BY <1>3, <1>4
  <2>2. (k + 1) + i - 1 = i + k
    BY <1>5
  <2> QED BY <2>1, <2>2
<1> QED BY <1>3, <1>6, <1>7

\* What is left of a request list from its i-th request on.
LEMMA RestOfList ==
  ASSUME NEW s \in Seq(LockRequest), NEW i \in 1..(Len(s) + 1)
  PROVE  /\ SubSeq(s, i, Len(s)) \in Seq(LockRequest)
         /\ i <= Len(s) => /\ SubSeq(s, i, Len(s)) # <<>>
                           /\ Head(SubSeq(s, i, Len(s))) = s[i]
                           /\ s[i] \in LockRequest
<1>1. i - 1 \in 0..Len(s) /\ (i - 1) + 1 = i
  OBVIOUS
<1>2. /\ SubSeq(s, i, Len(s)) \in Seq(LockRequest)
      /\ Len(SubSeq(s, i, Len(s))) = Len(s) - (i - 1)
      /\ \A j \in 1..(Len(s) - (i - 1)) : SubSeq(s, i, Len(s))[j] = s[j + (i - 1)]
  BY <1>1, DropSeq
<1>3. ASSUME i <= Len(s)
      PROVE /\ SubSeq(s, i, Len(s)) # <<>>
            /\ Head(SubSeq(s, i, Len(s))) = s[i]
            /\ s[i] \in LockRequest
  <2>1. 1 \in 1..(Len(s) - (i - 1)) /\ 1 + (i - 1) = i /\ Len(s) - (i - 1) # 0
    BY <1>3
  <2>2. SubSeq(s, i, Len(s))[1] = s[i]
    BY <1>2, <2>1
  <2>3. Len(SubSeq(s, i, Len(s))) # 0
    BY <1>2, <2>1
  <2>4. s[i] \in LockRequest
    BY <1>3
  <2>5. SubSeq(s, i, Len(s)) # <<>>
    BY <2>3, EmptySeq
  <2>6. Head(SubSeq(s, i, Len(s))) = SubSeq(s, i, Len(s))[1]
    BY <1>2, <2>5
  <2> QED BY <2>2, <2>4, <2>5, <2>6
<1> QED BY <1>2, <1>3

\* A sequence with one more element.
LEMMA AppendSeq ==
  ASSUME NEW S, NEW s \in Seq(S), NEW x \in S
  PROVE  /\ Append(s, x) \in Seq(S)
         /\ Len(s) \in Nat
         /\ Len(Append(s, x)) = Len(s) + 1
         /\ Append(s, x)[Len(s) + 1] = x
         /\ \A i \in 1..Len(s) : Append(s, x)[i] = s[i]
         /\ \A i \in 1..Len(Append(s, x)) : i \in 1..Len(s) \/ i = Len(s) + 1
<1>1. /\ Append(s, x) \in Seq(S)
      /\ Len(Append(s, x)) = Len(s) + 1
      /\ \A i \in 1..Len(s) : Append(s, x)[i] = s[i]
      /\ Append(s, x)[Len(s) + 1] = x
  BY AppendProperties
<1>2. Len(s) \in Nat
  OBVIOUS
<1>3. \A i \in 1..(Len(s) + 1) : i \in 1..Len(s) \/ i = Len(s) + 1
  BY <1>2
<1> QED BY <1>1, <1>2, <1>3

\* pump keeps the agreement of queues, held requests and claims, whatever the
\* queues q, held requests a and chain states p it starts from.
LEMMA PumpOK ==
  ASSUME NEW q, NEW h \in SUBSET Domains, NEW a \in SUBSET LockRequest,
         NEW p \in [Chains -> PC], NEW t \in [Chains -> Seq(LockRequest)],
         NEW o \in [Chains -> Seq(Holder)],
         QueuesOK(q, p, t), ActiveOK(a, p, t, o), ClaimsOK(p, t, o),
         pump(q, h, a, p)
  PROVE  /\ queues' \in [Domains -> Seq(Waiter)]
         /\ ahead' \subseteq Domains
         /\ active' \subseteq LockRequest
         /\ pc' \in [Chains -> PC]
         /\ \A c \in Chains : pc'[c] = "idle" <=> p[c] = "idle"
         /\ QueuesOK(queues', pc', t)
         /\ ActiveOK(active', pc', t, o)
         /\ ClaimsOK(pc', t, o)
<1>0. Cardinality(Chains) \in Nat
  BY RequestAssumption, FS_CardinalityType
<1>1. PICK n \in [Domains -> 0..Cardinality(Chains)] :
        /\ \A d \in Domains : n[d] <= Len(q[d])
        /\ \A w \in Granted(q, n) : \A r \in a : ~locksConflict(r, w.req)
        /\ \A v, w \in Granted(q, n) : v # w => ~locksConflict(v.req, w.req)
        /\ queues' = Remaining(q, n)
        /\ ahead' = StillAhead(Remaining(q, n), h)
        /\ active' = a \union {w.req : w \in Granted(q, n)}
        /\ pc' = Wake(p, Granted(q, n))
  BY DEF pump
<1> DEFINE G == Granted(q, n)
<1>2. \A d \in Domains : n[d] \in Nat /\ q[d] \in Seq(Waiter) /\ n[d] <= Len(q[d])
  <2>1. q \in [Domains -> Seq(Waiter)]
    BY DEF QueuesOK
  <2>2. \A d \in Domains : n[d] \in 0..Cardinality(Chains) /\ n[d] <= Len(q[d])
    BY <1>1
  <2> QED BY <1>0, <2>1, <2>2
<1>3. \A w \in G : \E d \in Domains : \E i \in 1..n[d] : w = q[d][i] /\ i \in 1..Len(q[d])
  BY <1>2 DEF Granted
<1>4. \A d \in Domains : \A i \in 1..n[d] : q[d][i] \in G
  BY DEF Granted
<1>5. \A w \in G : /\ w \in Waiter /\ p[w.chain] = "waiting"
                   /\ t[w.chain] # <<>> /\ Head(t[w.chain]) = w.req
  BY <1>2, <1>3 DEF QueuesOK
<1>6. \A c \in Chains : /\ (\E w \in G : w.chain = c) => pc'[c] = "granted"
                        /\ ~(\E w \in G : w.chain = c) => pc'[c] = p[c]
  BY <1>1 DEF Wake
<1>7. pc' \in [Chains -> PC]
  BY <1>1 DEF Wake, PC
<1>8. \A d \in Domains :
        /\ queues'[d] \in Seq(Waiter)
        /\ Len(queues'[d]) = Len(q[d]) - n[d]
        /\ \A i \in 1..Len(queues'[d]) : /\ i + n[d] \in 1..Len(q[d])
                                         /\ queues'[d][i] = q[d][i + n[d]]
  <2> SUFFICES ASSUME NEW d \in Domains
               PROVE  /\ queues'[d] \in Seq(Waiter)
                      /\ Len(queues'[d]) = Len(q[d]) - n[d]
                      /\ \A i \in 1..Len(queues'[d]) : 
                           /\ i + n[d] \in 1..Len(q[d])
                           /\ queues'[d][i] = q[d][i + n[d]]
    OBVIOUS
  <2>1. queues'[d] = SubSeq(q[d], n[d] + 1, Len(q[d]))
    BY <1>1 DEF Remaining
  <2>2. n[d] \in Nat /\ q[d] \in Seq(Waiter) /\ n[d] <= Len(q[d])
    BY <1>2
  <2>3. n[d] \in 0..Len(q[d])
    BY <2>2
  <2>4. /\ queues'[d] \in Seq(Waiter)
        /\ Len(queues'[d]) = Len(q[d]) - n[d]
        /\ \A i \in 1..(Len(q[d]) - n[d]) : queues'[d][i] = q[d][i + n[d]]
    BY <2>1, <2>2, <2>3, DropSeq
  <2>5. \A i \in 1..(Len(q[d]) - n[d]) : i + n[d] \in 1..Len(q[d])
    BY <2>2
  <2> QED BY <2>4, <2>5
<1>9. queues' \in [Domains -> Seq(Waiter)]
  <2>1. queues' = [d \in Domains |-> SubSeq(q[d], n[d] + 1, Len(q[d]))]
    BY <1>1 DEF Remaining
  <2> QED BY <2>1, <1>8
<1>10. \A d \in Domains : \A i \in 1..Len(queues'[d]) :
         ~(\E w \in G : w.chain = queues'[d][i].chain)
  <2> SUFFICES ASSUME NEW d \in Domains, NEW i \in 1..Len(queues'[d]),
                      NEW w \in G, w.chain = queues'[d][i].chain
               PROVE FALSE
    OBVIOUS
  <2>1. PICK e \in Domains : \E j \in 1..n[e] : w = q[e][j] /\ j \in 1..Len(q[e])
    BY <1>3
  <2>2. PICK j \in 1..n[e] : w = q[e][j] /\ j \in 1..Len(q[e])
    BY <2>1
  <2>3. d = e /\ i + n[d] = j
    <3>1. i + n[d] \in 1..Len(q[d]) /\ queues'[d][i] = q[d][i + n[d]]
      BY <1>8
    <3>2. \A b \in 1..Len(q[d]), l \in 1..Len(q[e]) :
             q[d][b].chain = q[e][l].chain => d = e /\ b = l
      BY Zenon DEF QueuesOK
    <3>3. q[d][i + n[d]].chain = q[e][j].chain
      BY <2>2, <3>1
    <3> QED BY <2>2, <3>1, <3>2, <3>3
  <2>4. n[d] \in Nat /\ i \in Nat /\ i > 0 /\ j <= n[d]
    BY <2>2, <2>3, <1>2, <1>8
  <2> QED BY <2>3, <2>4
<1>11. QueuesOK(queues', pc', t)
  <2>1. ASSUME NEW d \in Domains, NEW i \in 1..Len(queues'[d])
        PROVE /\ pc'[queues'[d][i].chain] = "waiting"
              /\ t[queues'[d][i].chain] # <<>>
              /\ Head(t[queues'[d][i].chain]) = queues'[d][i].req
    <3>1. queues'[d][i] \in Waiter
      BY <1>8
    <3>2. pc'[queues'[d][i].chain] = p[queues'[d][i].chain]
      BY <3>1, <1>6, <1>10 DEF Waiter
    <3>3. i + n[d] \in 1..Len(q[d]) /\ queues'[d][i] = q[d][i + n[d]]
      BY <1>8
    <3> QED BY <3>2, <3>3 DEF QueuesOK
  <2>2. ASSUME NEW d \in Domains, NEW e \in Domains, NEW i \in 1..Len(queues'[d]),
               NEW j \in 1..Len(queues'[e]), queues'[d][i].chain = queues'[e][j].chain
        PROVE d = e /\ i = j
    <3>1. /\ i + n[d] \in 1..Len(q[d]) /\ queues'[d][i] = q[d][i + n[d]]
          /\ j + n[e] \in 1..Len(q[e]) /\ queues'[e][j] = q[e][j + n[e]]
      BY <1>8
    <3>0. \A b \in 1..Len(q[d]), l \in 1..Len(q[e]) :
             q[d][b].chain = q[e][l].chain => d = e /\ b = l
      BY Zenon DEF QueuesOK
    <3>2. d = e /\ i + n[d] = j + n[e]
      BY <2>2, <3>0, <3>1
    <3> QED BY <3>2, <1>2, <1>8
  <2> QED BY <2>1, <2>2, <1>9 DEF QueuesOK
<1>12. \A c \in Chains : pc'[c] = "idle" <=> p[c] = "idle"
  BY <1>5, <1>6
<1>13. active' \subseteq LockRequest
  BY <1>1, <1>5 DEF Waiter
<1>14. \A r, s \in active' : r # s => ~locksConflict(r, s)
  <2>1. \A r, s \in LockRequest : locksConflict(r, s) <=> locksConflict(s, r)
    BY RequestAssumption DEF locksConflict
  <2>2. \A r, s \in a : r # s => ~locksConflict(r, s)
    BY DEF ActiveOK
  <2> SUFFICES ASSUME NEW r \in active', NEW s \in active', r # s
               PROVE ~locksConflict(r, s)
    OBVIOUS
  <2>3. CASE r \in a /\ s \in a
    BY <2>2, <2>3
  <2>4. CASE r \in a /\ s \notin a
    BY <1>1, <2>4
  <2>5. CASE r \notin a /\ s \in a
    BY <1>1, <1>13, <2>1, <2>5
  <2>6. CASE r \notin a /\ s \notin a
    BY <1>1, <2>6
  <2> QED BY <2>3, <2>4, <2>5, <2>6
\* A chain granted by this pump gains one claim, which nobody had.
<1>15. \A c \in Chains : \A x \in Claims(c, pc', t, o) :
         \/ x \in Claims(c, p, t, o)
         \/ \E w \in G : w.chain = c /\ w.req = x
  <2> SUFFICES ASSUME NEW c \in Chains, NEW x \in Claims(c, pc', t, o),
                      x \notin Claims(c, p, t, o)
               PROVE  \E w \in G : w.chain = c /\ w.req = x
    OBVIOUS
  <2>1. pc'[c] = "granted" /\ x = Head(t[c]) /\ p[c] # "granted"
    BY DEF Claims
  <2>2. PICK w \in G : w.chain = c
    BY <2>1, <1>6
  <2> QED BY <2>1, <2>2, <1>5
<1>16. \A w \in G : w.req \notin a
  BY <1>1, <1>5, ConflictReflexive DEF Waiter
<1>17. \A v, w \in G : v.req = w.req => v = w
  BY <1>1, <1>5, ConflictReflexive DEF Waiter
<1>18. \A c \in Chains : Claims(c, p, t, o) \subseteq a
  BY DEF ActiveOK
<1>19. ActiveOK(active', pc', t, o)
  <2>1. \A c \in Chains : Claims(c, pc', t, o) \subseteq active'
    BY <1>1, <1>15, <1>18
  <2>2. \A c \in Chains : pc'[c] = "granted" => t[c] # <<>>
    BY <1>5, <1>6 DEF ActiveOK
  <2> QED BY <1>14, <2>1, <2>2 DEF ActiveOK
<1>20. ClaimsOK(pc', t, o)
  <2>1. ASSUME NEW c \in Chains, NEW d \in Chains, c # d,
               NEW x \in Claims(c, pc', t, o), x \in Claims(d, pc', t, o)
        PROVE FALSE
    <3>1. CASE x \in Claims(c, p, t, o) /\ x \in Claims(d, p, t, o)
      BY <2>1, <3>1 DEF ClaimsOK
    <3>2. CASE x \notin Claims(c, p, t, o) /\ x \in Claims(d, p, t, o)
      <4>1. PICK v \in G : v.chain = c /\ v.req = x
        BY <3>2, <1>15
      <4> QED BY <3>2, <4>1, <1>16, <1>18
    <3>3. CASE x \in Claims(c, p, t, o) /\ x \notin Claims(d, p, t, o)
      <4>1. PICK v \in G : v.chain = d /\ v.req = x
        BY <2>1, <3>3, <1>15
      <4> QED BY <3>3, <4>1, <1>16, <1>18
    <3>4. CASE x \notin Claims(c, p, t, o) /\ x \notin Claims(d, p, t, o)
      <4>1. PICK v \in G : v.chain = c /\ v.req = x
        BY <3>4, <1>15
      <4>2. PICK w \in G : w.chain = d /\ w.req = x
        BY <2>1, <3>4, <1>15
      <4> QED BY <2>1, <4>1, <4>2, <1>17
    <3> QED BY <3>1, <3>2, <3>3, <3>4
  <2>2. ASSUME NEW c \in Chains, NEW i \in 1..Len(o[c]), pc'[c] = "granted"
        PROVE o[c][i].req # Head(t[c])
    <3>1. o[c][i].req \in a
      BY <1>18 DEF Claims
    <3>2. CASE \E w \in G : w.chain = c
      BY <3>1, <3>2, <1>5, <1>16
    <3>3. CASE ~(\E w \in G : w.chain = c)
      BY <3>3, <2>2, <1>6 DEF ClaimsOK
    <3> QED BY <3>2, <3>3
  <2>3. \A c \in Chains : \A i, j \in 1..Len(o[c]) : i # j => o[c][i].req # o[c][j].req
    BY DEF ClaimsOK
  <2> QED BY <2>1, <2>2, <2>3 DEF ClaimsOK
<1>21. ahead' \subseteq Domains
  BY <1>1 DEF StillAhead
<1> QED BY <1>7, <1>9, <1>11, <1>12, <1>13, <1>19, <1>20, <1>21

-----------------------------------------------------------------------------
\* Who is queued waits, for the request it is queued with, and once.
LEMMA InQueueWaits ==
  ASSUME Inv
  PROVE  /\ \A d \in Domains : \A j \in 1..Len(queues[d]) :
              /\ queues[d][j] \in Waiter /\ queues[d][j].chain \in Chains
              /\ pc[queues[d][j].chain] = "waiting" /\ todo[queues[d][j].chain] # <<>>
              /\ Head(todo[queues[d][j].chain]) = queues[d][j].req
         /\ \A d, e \in Domains : \A j \in 1..Len(queues[d]), k \in 1..Len(queues[e]) :
              queues[d][j].chain = queues[e][k].chain => d = e /\ j = k
<1>1. QueuesOK(queues, pc, todo)
  BY DEF Inv
<1>2. \A d \in Domains : \A j \in 1..Len(queues[d]) :
        queues[d][j] \in Waiter /\ queues[d][j].chain \in Chains
  <2>1. queues \in [Domains -> Seq(Waiter)]
    BY <1>1 DEF QueuesOK
  <2> TAKE d \in Domains
  <2> TAKE j \in 1..Len(queues[d])
  <2>2. queues[d][j] \in Waiter
    BY <2>1
  <2> QED BY <2>2 DEF Waiter
<1>3. \A d \in Domains : \A j \in 1..Len(queues[d]) :
        /\ pc[queues[d][j].chain] = "waiting" /\ todo[queues[d][j].chain] # <<>>
        /\ Head(todo[queues[d][j].chain]) = queues[d][j].req
  BY <1>1, Zenon DEF QueuesOK
<1>4. \A d, e \in Domains : \A j \in 1..Len(queues[d]), k \in 1..Len(queues[e]) :
        queues[d][j].chain = queues[e][k].chain => d = e /\ j = k
  BY <1>1, Zenon DEF QueuesOK
<1> QED BY <1>2, <1>3, <1>4

\* A chain whose request is at the head of its list, and that is not queued
\* yet, may be put at the end of the queue of the request's domain.
LEMMA EnqueueOK ==
  ASSUME Inv, NEW c \in Chains, NEW r \in LockRequest, pc[c] # "waiting",
         todo' \in [Chains -> Seq(LockRequest)],
         todo'[c] # <<>>, Head(todo'[c]) = r,
         \A d \in Chains \ {c} : todo'[d] = todo[d]
  PROVE  QueuesOK([queues EXCEPT ![Domain(r)] = Append(@, [req |-> r, chain |-> c])],
                  [pc EXCEPT ![c] = "waiting"], todo')
<1> DEFINE D == Domain(r)
           p == [pc EXCEPT ![c] = "waiting"]
           w == [req |-> r, chain |-> c]
           q == [queues EXCEPT ![D] = Append(@, w)]
<1>1. queues \in [Domains -> Seq(Waiter)] /\ pc \in [Chains -> PC]
  BY DEF Inv, TypeOK, Waiter, PC
<1>2. \A d \in Domains : \A j \in 1..Len(queues[d]) :
        /\ queues[d][j] \in Waiter /\ queues[d][j].chain \in Chains \ {c}
        /\ pc[queues[d][j].chain] = "waiting" /\ todo[queues[d][j].chain] # <<>>
        /\ Head(todo[queues[d][j].chain]) = queues[d][j].req
  BY InQueueWaits
<1>3. \A d, e \in Domains : \A j \in 1..Len(queues[d]), k \in 1..Len(queues[e]) :
        queues[d][j].chain = queues[e][k].chain => d = e /\ j = k
  BY InQueueWaits
<1>4. D \in Domains /\ w \in Waiter
  BY DEF Domains, Waiter
<1>5. \A d \in Domains : /\ q[d] \in Seq(Waiter)
                         /\ \A j \in 1..Len(q[d]) :
                              \/ j \in 1..Len(queues[d]) /\ q[d][j] = queues[d][j]
                              \/ d = D /\ j = Len(queues[D]) + 1 /\ q[d][j] = w
  <2> TAKE d \in Domains
  <2>1. queues[d] \in Seq(Waiter)
    BY <1>1
  <2>2. CASE d = D
    <3>1. q[d] = Append(queues[d], w)
      BY <1>1, <1>4, <2>2
    <3> QED BY <1>4, <2>1, <2>2, <3>1, AppendSeq
  <2>3. CASE d # D
    BY <1>1, <2>1, <2>3
  <2> QED BY <2>2, <2>3
<1>6. q \in [Domains -> Seq(Waiter)]
  BY <1>1, <1>5
<1>7. p[c] = "waiting" /\ \A d \in Chains \ {c} : p[d] = pc[d]
  BY <1>1
<1> HIDE DEF q, p, w, D
<1>8. w.chain = c /\ w.req = r
  BY DEF w
<1>9. \A d \in Domains : \A j \in 1..Len(q[d]) :
         /\ p[q[d][j].chain] = "waiting"
         /\ todo'[q[d][j].chain] # <<>>
         /\ Head(todo'[q[d][j].chain]) = q[d][j].req
  <2> SUFFICES ASSUME NEW d \in Domains, NEW j \in 1..Len(q[d])
               PROVE /\ p[q[d][j].chain] = "waiting"
                     /\ todo'[q[d][j].chain] # <<>>
                     /\ Head(todo'[q[d][j].chain]) = q[d][j].req
    OBVIOUS
  <2>1. CASE j \in 1..Len(queues[d]) /\ q[d][j] = queues[d][j]
    <3>1. /\ queues[d][j].chain \in Chains \ {c}
          /\ pc[queues[d][j].chain] = "waiting" /\ todo[queues[d][j].chain] # <<>>
          /\ Head(todo[queues[d][j].chain]) = queues[d][j].req
      BY <2>1, <1>2
    <3> QED BY <2>1, <3>1, <1>7
  <2>2. CASE q[d][j] = w
    BY <2>2, <1>7, <1>8
  <2> QED BY <2>1, <2>2, <1>5
<1>10. \A d, e \in Domains : \A j \in 1..Len(q[d]), k \in 1..Len(q[e]) :
         q[d][j].chain = q[e][k].chain => d = e /\ j = k
  <2> SUFFICES ASSUME NEW d \in Domains, NEW e \in Domains,
                      NEW j \in 1..Len(q[d]), NEW k \in 1..Len(q[e]),
                      q[d][j].chain = q[e][k].chain
               PROVE  d = e /\ j = k
    OBVIOUS
  <2> DEFINE Old(f, l) == l \in 1..Len(queues[f]) /\ q[f][l] = queues[f][l]
             New(f, l) == f = D /\ l = Len(queues[D]) + 1 /\ q[f][l] = w
  <2>1. (Old(d, j) \/ New(d, j)) /\ (Old(e, k) \/ New(e, k))
    BY <1>5
  <2>2. CASE Old(d, j) /\ Old(e, k)
    <3>1. queues[d][j].chain = queues[e][k].chain
      BY <2>2
    <3>2. \A a \in 1..Len(queues[d]), b \in 1..Len(queues[e]) :
            queues[d][a].chain = queues[e][b].chain => d = e /\ a = b
      BY <1>3, Zenon
    <3> QED BY <2>2, <3>1, <3>2
  <2>3. CASE Old(d, j) /\ New(e, k)
    BY <2>3, <1>8, <1>2
  <2>4. CASE New(d, j) /\ Old(e, k)
    BY <2>4, <1>8, <1>2
  <2>5. CASE New(d, j) /\ New(e, k)
    BY <2>5
  <2> QED BY <2>1, <2>2, <2>3, <2>4, <2>5
<1>11. QueuesOK(q, p, todo')
  BY <1>6, <1>9, <1>10 DEF QueuesOK
<1> QED BY <1>11 DEF q, p, w, D

-----------------------------------------------------------------------------
\* acquireChain keeps the agreement: chain c, which is not queued, goes on with
\* the list s; its claims are now the requests on its stack.
LEMMA AcquireOK ==
  ASSUME Inv, NEW c \in Chains, NEW s \in Seq(LockRequest), NEW H,
         pc[c] # "waiting",
         own' \in [Chains -> Seq(Holder)],
         \A d \in Chains \ {c} : own'[d] = own[d],
         {own'[c][i].req : i \in 1..Len(own'[c])} = Claims(c, pc, todo, own),
         \A i, j \in 1..Len(own'[c]) : i # j => own'[c][i].req # own'[c][j].req,
         acquireChain(c, s, H)
  PROVE  /\ queues' \in [Domains -> Seq(Waiter)]
         /\ ahead' \subseteq Domains
         /\ active' \subseteq LockRequest
         /\ pc' \in [Chains -> PC]
         /\ todo' \in [Chains -> Seq(LockRequest)]
         /\ \A d \in Chains \ {c} : pc'[d] = "idle" <=> pc[d] = "idle"
         /\ pc'[c] # "idle"
         /\ QueuesOK(queues', pc', todo')
         /\ ActiveOK(active', pc', todo', own')
         /\ ClaimsOK(pc', todo', own')
<1> USE DEF Inv
<1>1. PICK i \in 1..(Len(s) + 1) :
        /\ todo' = [todo EXCEPT ![c] = SubSeq(s, i, Len(s))]
        /\ \/ /\ pc' = [pc EXCEPT ![c] = "running"]
              /\ UNCHANGED <<queues, ahead, active>>
           \/ /\ pc' = [pc EXCEPT ![c] = "releasing"]
              /\ UNCHANGED <<queues, ahead, active>>
           \/ /\ i <= Len(s)
              /\ acquireOne(c, s[i])
  BY DEF acquireChain
<1>2. /\ queues \in [Domains -> Seq(Waiter)] /\ ahead \subseteq Domains
      /\ active \subseteq LockRequest /\ pc \in [Chains -> PC]
      /\ todo \in [Chains -> Seq(LockRequest)] /\ own \in [Chains -> Seq(Holder)]
  BY DEF TypeOK, Waiter, PC
<1>3. /\ SubSeq(s, i, Len(s)) \in Seq(LockRequest)
      /\ i <= Len(s) => /\ SubSeq(s, i, Len(s)) # <<>>
                        /\ Head(SubSeq(s, i, Len(s))) = s[i]
                        /\ s[i] \in LockRequest
  BY RestOfList
<1>4. /\ todo' \in [Chains -> Seq(LockRequest)]
      /\ todo'[c] = SubSeq(s, i, Len(s))
      /\ \A d \in Chains \ {c} : todo'[d] = todo[d]
  BY <1>1, <1>2, <1>3
\* The chain's state set to x, not "granted": the other chains' claims are
\* untouched and the chain's own are the requests on its stack.
<1>5. ASSUME NEW x \in PC \ {"granted"}
      PROVE /\ [pc EXCEPT ![c] = x] \in [Chains -> PC]
            /\ ActiveOK(active, [pc EXCEPT ![c] = x], todo', own')
            /\ ClaimsOK([pc EXCEPT ![c] = x], todo', own')
  <2> DEFINE p == [pc EXCEPT ![c] = x]
  <2>1. p \in [Chains -> PC] /\ p[c] = x /\ \A d \in Chains \ {c} : p[d] = pc[d]
    BY <1>2
  <2> HIDE DEF p
  <2>2. \A d \in Chains : Claims(d, p, todo', own') = Claims(d, pc, todo, own)
    <3>1. Claims(c, p, todo', own') = Claims(c, pc, todo, own)
      BY <2>1 DEF Claims
    <3>2. \A d \in Chains \ {c} : Claims(d, p, todo', own') = Claims(d, pc, todo, own)
      BY <2>1, <1>4 DEF Claims
    <3> QED BY <3>1, <3>2
  <2>3. ActiveOK(active, p, todo', own')
    BY <2>1, <2>2, <1>4 DEF ActiveOK
  <2>4. \A d, e \in Chains : d # e => Claims(d, p, todo', own') \cap Claims(e, p, todo', own') = {}
    BY <2>2 DEF ClaimsOK
  <2>5. \A d \in Chains : \A j, k \in 1..Len(own'[d]) : j # k => own'[d][j].req # own'[d][k].req
    <3>1. \A d \in Chains \ {c} : \A j, k \in 1..Len(own'[d]) :
             j # k => own'[d][j].req # own'[d][k].req
      BY DEF ClaimsOK
    <3> QED BY <3>1
  <2>6. \A d \in Chains : \A j \in 1..Len(own'[d]) :
           p[d] = "granted" => own'[d][j].req # Head(todo'[d])
    <3> HIDE DEF Inv
    <3>1. ClaimsOK(pc, todo, own)
      BY DEF Inv
    <3>2. \A d \in Chains : \A j \in 1..Len(own[d]) :
             pc[d] = "granted" => own[d][j].req # Head(todo[d])
      BY <3>1, Zenon DEF ClaimsOK
    <3>3. ASSUME NEW d \in Chains, NEW j \in 1..Len(own'[d]), p[d] = "granted"
          PROVE  own'[d][j].req # Head(todo'[d])
      <4>1. d \in Chains \ {c}
        BY <2>1, <3>3
      <4>2. own'[d] = own[d] /\ todo'[d] = todo[d] /\ pc[d] = "granted"
        BY <2>1, <1>4, <3>3, <4>1
      <4>3. j \in 1..Len(own[d])
        BY <4>2
      <4> QED BY <3>2, <4>2, <4>3
    <3> QED BY <3>3
  <2>7. ClaimsOK(p, todo', own')
    BY <2>4, <2>5, <2>6 DEF ClaimsOK
  <2> QED BY <2>1, <2>3, <2>7 DEF p
<1>7. ASSUME NEW x \in {"running", "releasing"}, pc' = [pc EXCEPT ![c] = x],
             UNCHANGED <<queues, ahead, active>>
      PROVE  QueuesOK(queues', pc', todo')
  <2>1. \A d \in Chains \ {c} : pc'[d] = pc[d]
    BY <1>2, <1>7
  <2>2. queues' = queues /\ queues \in [Domains -> Seq(Waiter)]
    BY <1>2, <1>7
  <2>3. \A d \in Domains : \A j \in 1..Len(queues[d]) :
          /\ pc'[queues[d][j].chain] = "waiting"
          /\ todo'[queues[d][j].chain] # <<>>
          /\ Head(todo'[queues[d][j].chain]) = queues[d][j].req
    <3> TAKE d \in Domains
    <3> TAKE j \in 1..Len(queues[d])
    <3> HIDE DEF Inv
    <3>1. /\ queues[d][j].chain \in Chains \ {c}
          /\ pc[queues[d][j].chain] = "waiting" /\ todo[queues[d][j].chain] # <<>>
          /\ Head(todo[queues[d][j].chain]) = queues[d][j].req
      BY InQueueWaits
    <3> QED BY <3>1, <1>4, <2>1
  <2>4. QueuesOK(queues, pc', todo')
    <3> HIDE DEF Inv
    <3> QED BY <2>2, <2>3, InQueueWaits DEF QueuesOK
  <2> QED BY <2>2, <2>4
<1>8. CASE i <= Len(s) /\ acquireOne(c, s[i])
  <2> DEFINE r == s[i]
             D == Domain(r)
             p == [pc EXCEPT ![c] = "waiting"]
             q == [queues EXCEPT ![D] = Append(@, [req |-> r, chain |-> c])]
  <2>1. r \in LockRequest /\ todo'[c] # <<>> /\ Head(todo'[c]) = r
    BY <1>3, <1>4, <1>8
  <2>2. pump(q, KeysBefore(D), active, p)
    BY <1>8 DEF acquireOne
  <2>3. KeysBefore(D) \in SUBSET Domains
    BY <1>2 DEF KeysBefore
  <2>4. p \in [Chains -> PC] /\ ActiveOK(active, p, todo', own') /\ ClaimsOK(p, todo', own')
    BY <1>5 DEF PC
  <2>5. p[c] = "waiting" /\ \A d \in Chains \ {c} : p[d] = pc[d]
    BY <1>2
  <2> HIDE DEF Inv
  <2>6. QueuesOK(q, p, todo')
    BY <1>4, <2>1, EnqueueOK
  <2> HIDE DEF q, p, r, D
  <2>7. /\ queues' \in [Domains -> Seq(Waiter)]
        /\ ahead' \subseteq Domains
        /\ active' \subseteq LockRequest
        /\ pc' \in [Chains -> PC]
        /\ \A d \in Chains : pc'[d] = "idle" <=> p[d] = "idle"
        /\ QueuesOK(queues', pc', todo')
        /\ ActiveOK(active', pc', todo', own')
        /\ ClaimsOK(pc', todo', own')
    BY <1>2, <1>4, <2>2, <2>3, <2>4, <2>6, PumpOK
  <2> QED BY <1>4, <2>5, <2>7
<1>9. ASSUME NEW x \in {"running", "releasing"}, pc' = [pc EXCEPT ![c] = x],
             UNCHANGED <<queues, ahead, active>>
      PROVE  /\ queues' \in [Domains -> Seq(Waiter)]
             /\ ahead' \subseteq Domains
             /\ active' \subseteq LockRequest
             /\ pc' \in [Chains -> PC]
             /\ \A d \in Chains \ {c} : pc'[d] = "idle" <=> pc[d] = "idle"
             /\ pc'[c] # "idle"
             /\ ActiveOK(active', pc', todo', own')
             /\ ClaimsOK(pc', todo', own')
  <2>1. /\ pc' \in [Chains -> PC] /\ ActiveOK(active, pc', todo', own')
        /\ ClaimsOK(pc', todo', own')
    BY <1>5, <1>9 DEF PC
  <2> QED BY <1>2, <1>9, <2>1
<1> QED BY <1>1, <1>4, <1>7, <1>8, <1>9

-----------------------------------------------------------------------------
\* The invariant is rebuilt from the parts the two lemmas above give.
LEMMA InvFromParts ==
  ASSUME queues' \in [Domains -> Seq(Waiter)], ahead' \subseteq Domains,
         active' \subseteq LockRequest, pc' \in [Chains -> PC],
         todo' \in [Chains -> Seq(LockRequest)], own' \in [Chains -> Seq(Holder)],
         ctx' \in [Chains -> SUBSET Holder], frames' \in [Chains -> Seq(Nat)],
         \A c \in Chains : pc'[c] = "idle" <=> frames'[c] = <<>>,
         QueuesOK(queues', pc', todo'), ActiveOK(active', pc', todo', own'),
         ClaimsOK(pc', todo', own'), FramesOK'
  PROVE  Inv'
BY DEF Inv, TypeOK, PC, Waiter

\* Init establishes the invariant.
LEMMA InitInv == Init => Inv
<1> SUFFICES ASSUME Init PROVE Inv
  OBVIOUS
<1>1. TypeOK
  BY DEF Init, TypeOK
<1>2. QueuesOK(queues, pc, todo) /\ FramesOK
  BY DEF Init, QueuesOK, FramesOK
<1>3. ActiveOK(active, pc, todo, own)
  BY DEF Init, ActiveOK, Claims
<1>4. ClaimsOK(pc, todo, own)
  BY DEF Init, ClaimsOK, Claims
<1> QED BY <1>1, <1>2, <1>3, <1>4 DEF Inv

\* Type facts used by every action.
LEMMA Types ==
  ASSUME Inv
  PROVE  /\ queues \in [Domains -> Seq(Waiter)] /\ ahead \subseteq Domains
         /\ active \subseteq LockRequest /\ pc \in [Chains -> PC]
         /\ todo \in [Chains -> Seq(LockRequest)] /\ own \in [Chains -> Seq(Holder)]
         /\ ctx \in [Chains -> SUBSET Holder] /\ frames \in [Chains -> Seq(Nat)]
         /\ \A c \in Chains : pc[c] = "idle" <=> frames[c] = <<>>
BY DEF Inv, TypeOK, Waiter, PC

\* A withLocks call keeps the invariant.
LEMMA WithLocksInv ==
  ASSUME Inv, NEW c \in Chains, NEW S \in Calls, withLocks(c, S)
  PROVE  Inv'
<1>1. PICK s \in [1..Cardinality(S) -> S] : acquireChain(c, s, Held(c))
  BY DEF withLocks
<1>2. s \in Seq(LockRequest)
  <2>1. Cardinality(S) \in Nat /\ S \subseteq LockRequest
    BY RequestAssumption, FS_CardinalityType
  <2> QED BY <2>1
<1>3. /\ pc[c] \in {"idle", "running"} /\ own' = own /\ ctx' = ctx
      /\ frames' = [frames EXCEPT ![c] = Append(@, Len(own[c]))]
  BY DEF withLocks
<1>4. {own'[c][i].req : i \in 1..Len(own'[c])} = Claims(c, pc, todo, own)
  BY <1>3 DEF Claims
<1>5. \A i, j \in 1..Len(own'[c]) : i # j => own'[c][i].req # own'[c][j].req
  BY <1>3 DEF Inv, ClaimsOK
<1>6. /\ queues' \in [Domains -> Seq(Waiter)]
      /\ ahead' \subseteq Domains
      /\ active' \subseteq LockRequest
      /\ pc' \in [Chains -> PC]
      /\ todo' \in [Chains -> Seq(LockRequest)]
      /\ \A d \in Chains \ {c} : pc'[d] = "idle" <=> pc[d] = "idle"
      /\ pc'[c] # "idle"
      /\ QueuesOK(queues', pc', todo')
      /\ ActiveOK(active', pc', todo', own')
      /\ ClaimsOK(pc', todo', own')
  BY <1>1, <1>2, <1>3, <1>4, <1>5, Types, AcquireOK
<1>7. /\ frames' \in [Chains -> Seq(Nat)]
      /\ \A d \in Chains : pc'[d] = "idle" <=> frames'[d] = <<>>
  <2>1. frames[c] \in Seq(Nat) /\ Len(own[c]) \in Nat
    BY Types
  <2>2. Append(frames[c], Len(own[c])) \in Seq(Nat) /\ Append(frames[c], Len(own[c])) # <<>>
    BY <2>1
  <2>3. /\ frames' \in [Chains -> Seq(Nat)] /\ frames'[c] # <<>>
        /\ \A d \in Chains \ {c} : frames'[d] = frames[d]
    BY <1>3, <2>2, Types
  <2> QED BY <1>6, <2>3, Types
<1>8. FramesOK'
  <2>1. ASSUME NEW d \in Chains
        PROVE /\ \A i, j \in 1..Len(frames'[d]) : i <= j => frames'[d][i] <= frames'[d][j]
              /\ \A i \in 1..Len(frames'[d]) : frames'[d][i] <= Len(own'[d])
    <3>1. /\ \A i, j \in 1..Len(frames[d]) : i <= j => frames[d][i] <= frames[d][j]
          /\ \A i \in 1..Len(frames[d]) : frames[d][i] <= Len(own[d])
      BY DEF Inv, FramesOK
    <3>2. frames[d] \in Seq(Nat) /\ own[d] \in Seq(Holder) /\ Len(own[d]) \in Nat
      BY Types
    <3>3. CASE d # c
      BY <1>3, <3>1, <3>3, Types
    <3>4. CASE d = c
      <4>1. frames'[d] = Append(frames[d], Len(own[d]))
        BY <1>3, <3>4, Types
      <4>2. /\ Len(frames'[d]) = Len(frames[d]) + 1
            /\ frames'[d][Len(frames[d]) + 1] = Len(own[d])
            /\ \A i \in 1..Len(frames[d]) : frames'[d][i] = frames[d][i]
        BY <4>1, <3>2, AppendSeq
      <4>3. \A i \in 1..Len(frames'[d]) : i \in 1..Len(frames[d]) \/ i = Len(frames[d]) + 1
        BY <4>1, <3>2, AppendSeq
      <4>4. \A i \in 1..Len(frames'[d]) : frames'[d][i] <= Len(own[d])
        BY <4>2, <4>3, <3>1, <3>2
      <4>5. \A i, j \in 1..Len(frames'[d]) : i <= j => frames'[d][i] <= frames'[d][j]
        <5> SUFFICES ASSUME NEW i \in 1..Len(frames'[d]), NEW j \in 1..Len(frames'[d]), i <= j
                     PROVE frames'[d][i] <= frames'[d][j]
          OBVIOUS
        <5>1. CASE j = Len(frames[d]) + 1
          BY <5>1, <4>2, <4>4
        <5>2. CASE j # Len(frames[d]) + 1
          <6>1. i \in 1..Len(frames[d]) /\ j \in 1..Len(frames[d])
            BY <5>2, <4>2, <3>2
          <6> QED BY <6>1, <4>2, <3>1
        <5> QED BY <5>1, <5>2
      <4> QED BY <1>3, <4>4, <4>5
    <3> QED BY <3>3, <3>4
  <2> QED BY <2>1 DEF FramesOK
<1> QED BY <1>3, <1>6, <1>7, <1>8, Types, InvFromParts

\* Resuming with a granted lock keeps the invariant.
LEMMA ResumeInv ==
  ASSUME Inv, NEW c \in Chains, Resume(c)
  PROVE  Inv'
<1> DEFINE h == [req |-> Head(todo[c]), chain |-> c]
<1>1. /\ pc[c] = "granted" /\ own' = [own EXCEPT ![c] = Append(@, h)]
      /\ acquireChain(c, Tail(todo[c]), Held(c) \union {h})
      /\ ctx' = ctx /\ frames' = frames
  BY DEF Resume
<1>2. todo[c] # <<>> /\ todo[c] \in Seq(LockRequest)
  BY <1>1, Types DEF Inv, ActiveOK
<1>3. Tail(todo[c]) \in Seq(LockRequest) /\ Head(todo[c]) \in LockRequest
  BY <1>2
<1>4. h \in Holder /\ h.req = Head(todo[c])
  BY <1>3 DEF Holder
<1> HIDE DEF h
<1>5. /\ own' \in [Chains -> Seq(Holder)]
      /\ \A d \in Chains \ {c} : own'[d] = own[d]
      /\ own'[c] = Append(own[c], h)
      /\ own[c] \in Seq(Holder)
  BY <1>1, <1>4, Types
<1>6. /\ Len(own'[c]) = Len(own[c]) + 1
      /\ Len(own[c]) \in Nat
      /\ own'[c][Len(own[c]) + 1] = h
      /\ \A i \in 1..Len(own[c]) : own'[c][i] = own[c][i]
  BY <1>4, <1>5, AppendSeq
<1>7. \A i \in 1..Len(own'[c]) : i \in 1..Len(own[c]) \/ i = Len(own[c]) + 1
  BY <1>4, <1>5, AppendSeq
<1>8. {own'[c][i].req : i \in 1..Len(own'[c])} = Claims(c, pc, todo, own)
  <2>1. Claims(c, pc, todo, own) = {own[c][i].req : i \in 1..Len(own[c])} \union {Head(todo[c])}
    BY <1>1 DEF Claims
  <2>2. \A i \in 1..Len(own[c]) : i \in 1..Len(own'[c])
    BY <1>6
  <2>3. Len(own[c]) + 1 \in 1..Len(own'[c])
    BY <1>6
  <2> QED BY <2>1, <2>2, <2>3, <1>4, <1>6, <1>7
<1>9. \A i, j \in 1..Len(own'[c]) : i # j => own'[c][i].req # own'[c][j].req
  <2>1. /\ \A i, j \in 1..Len(own[c]) : i # j => own[c][i].req # own[c][j].req
        /\ \A i \in 1..Len(own[c]) : own[c][i].req # Head(todo[c])
    BY <1>1 DEF Inv, ClaimsOK
  <2> QED BY <2>1, <1>4, <1>6, <1>7
<1>10. /\ queues' \in [Domains -> Seq(Waiter)]
       /\ ahead' \subseteq Domains
       /\ active' \subseteq LockRequest
       /\ pc' \in [Chains -> PC]
       /\ todo' \in [Chains -> Seq(LockRequest)]
       /\ \A d \in Chains \ {c} : pc'[d] = "idle" <=> pc[d] = "idle"
       /\ pc'[c] # "idle"
       /\ QueuesOK(queues', pc', todo')
       /\ ActiveOK(active', pc', todo', own')
       /\ ClaimsOK(pc', todo', own')
  BY <1>1, <1>3, <1>5, <1>8, <1>9, AcquireOK
<1>11. \A d \in Chains : pc'[d] = "idle" <=> frames'[d] = <<>>
  BY <1>1, <1>10, Types
<1>12. FramesOK'
  <2>1. FramesOK
    BY DEF Inv
  <2>2. \A d \in Chains : /\ Len(own[d]) \in Nat /\ Len(own'[d]) \in Nat
                          /\ Len(own[d]) <= Len(own'[d])
    BY <1>5, <1>6, Types
  <2>3. \A d \in Chains : \A i \in 1..Len(frames[d]) : frames[d][i] \in Nat
    BY Types
  <2> QED BY <1>1, <2>1, <2>2, <2>3 DEF FramesOK
<1> QED BY <1>1, <1>5, <1>10, <1>11, <1>12, Types, InvFromParts

\* Steps that leave queues, held requests, claims and stacks alone.
LEMMA LocalStepInv ==
  ASSUME Inv, NEW c \in Chains, NEW x \in PC, NEW y \in Seq(LockRequest),
         pc[c] \in {"running", "releasing"}, x \in {"idle", "running", "releasing"},
         pc' = [pc EXCEPT ![c] = x],
         todo' = todo \/ todo' = [todo EXCEPT ![c] = y],
         UNCHANGED <<queues, ahead, active, own, ctx>>,
         frames' \in [Chains -> Seq(Nat)],
         \A d \in Chains \ {c} : frames'[d] = frames[d],
         x = "idle" <=> frames'[c] = <<>>,
         FramesOK'
  PROVE  Inv'
<1>1. /\ pc' \in [Chains -> PC] /\ pc'[c] = x /\ todo' \in [Chains -> Seq(LockRequest)]
      /\ \A d \in Chains \ {c} : pc'[d] = pc[d] /\ todo'[d] = todo[d]
  BY Types
<1>2. \A d \in Chains : /\ Claims(d, pc', todo', own') = Claims(d, pc, todo, own)
                        /\ pc'[d] = "granted" => pc[d] = "granted" /\ todo'[d] = todo[d]
  BY <1>1 DEF Claims
<1>3. ActiveOK(active', pc', todo', own')
  BY <1>2 DEF Inv, ActiveOK
<1>4. ClaimsOK(pc', todo', own')
  <2>1. \A d, e \in Chains : d # e => Claims(d, pc', todo', own') \cap Claims(e, pc', todo', own') = {}
    BY <1>2 DEF Inv, ClaimsOK
  <2>2. \A d \in Chains : \A i, j \in 1..Len(own'[d]) : i # j => own'[d][i].req # own'[d][j].req
    BY DEF Inv, ClaimsOK
  <2>3. \A d \in Chains : \A i \in 1..Len(own'[d]) :
           pc'[d] = "granted" => own'[d][i].req # Head(todo'[d])
    BY <1>2 DEF Inv, ClaimsOK
  <2> QED BY <2>1, <2>2, <2>3 DEF ClaimsOK
<1>5. QueuesOK(queues', pc', todo')
  <2>1. queues' = queues /\ queues \in [Domains -> Seq(Waiter)]
    BY Types
  <2>2. \A d \in Domains : \A j \in 1..Len(queues[d]) :
          /\ pc'[queues[d][j].chain] = "waiting"
          /\ todo'[queues[d][j].chain] # <<>>
          /\ Head(todo'[queues[d][j].chain]) = queues[d][j].req
    <3> TAKE d \in Domains
    <3> TAKE j \in 1..Len(queues[d])
    <3>0. queues[d][j] \in Waiter
      BY <2>1
    <3>1. queues[d][j].chain \in Chains
      BY <3>0 DEF Waiter
    <3>2. /\ pc[queues[d][j].chain] = "waiting" /\ todo[queues[d][j].chain] # <<>>
          /\ Head(todo[queues[d][j].chain]) = queues[d][j].req
      BY DEF Inv, QueuesOK
    <3> QED BY <3>1, <3>2, <1>1
  <2>3. \A d, e \in Domains : \A i \in 1..Len(queues[d]), j \in 1..Len(queues[e]) :
          queues[d][i].chain = queues[e][j].chain => d = e /\ i = j
    <3>1. QueuesOK(queues, pc, todo)
      BY DEF Inv
    <3> QED BY <3>1, Zenon DEF QueuesOK
  <2>4. QueuesOK(queues, pc', todo')
    BY <2>1, <2>2, <2>3 DEF QueuesOK
  <2> QED BY <2>1, <2>4
<1>6. \A d \in Chains : pc'[d] = "idle" <=> frames'[d] = <<>>
  BY <1>1, Types
<1> QED BY <1>1, <1>3, <1>4, <1>5, <1>6, Types, InvFromParts

\* fn settling keeps the invariant.
LEMMA FinishInv ==
  ASSUME Inv, NEW c \in Chains, Finish(c)
  PROVE  Inv'
<1>1. /\ pc[c] = "running" /\ frames[c] # <<>>
      /\ pc' = [pc EXCEPT ![c] = "releasing"]
      /\ UNCHANGED <<queues, ahead, active, todo, own, ctx, frames>>
  BY DEF Finish
<1>2. FramesOK'
  BY <1>1 DEF Inv, FramesOK
<1>3. frames' \in [Chains -> Seq(Nat)] /\ "releasing" \in PC /\ <<>> \in Seq(LockRequest)
  BY <1>1, Types DEF PC
<1> QED BY <1>1, <1>2, <1>3, LocalStepInv

\* Unwinding a call keeps the invariant.
LEMMA ReturnInv ==
  ASSUME Inv, NEW c \in Chains, Return(c)
  PROVE  Inv'
<1> DEFINE f == Len(frames[c])
           x == IF f = 1 THEN "idle" ELSE "running"
<1>1. /\ pc[c] = "releasing"
      /\ frames' = [frames EXCEPT ![c] = SubSeq(@, 1, f - 1)]
      /\ pc' = [pc EXCEPT ![c] = x]
      /\ todo' = [todo EXCEPT ![c] = <<>>]
      /\ UNCHANGED <<queues, ahead, active, own, ctx>>
  BY DEF Return
<1>2. frames[c] \in Seq(Nat) /\ frames[c] # <<>> /\ f \in Nat /\ f >= 1
  <2>1. frames[c] \in Seq(Nat) /\ frames[c] # <<>>
    BY <1>1, Types
  <2> QED BY <2>1
<1>3. /\ SubSeq(frames[c], 1, f - 1) \in Seq(Nat)
      /\ Len(SubSeq(frames[c], 1, f - 1)) = f - 1
      /\ \A i \in 1..(f - 1) : SubSeq(frames[c], 1, f - 1)[i] = frames[c][i]
  BY <1>2
<1>4. /\ frames' \in [Chains -> Seq(Nat)]
      /\ frames'[c] = SubSeq(frames[c], 1, f - 1)
      /\ \A d \in Chains \ {c} : frames'[d] = frames[d]
  BY <1>1, <1>3, Types
<1>5. x = "idle" <=> frames'[c] = <<>>
  <2>1. f = 1 <=> f - 1 = 0
    BY <1>2
  <2>2. frames'[c] \in Seq(Nat) /\ Len(frames'[c]) = f - 1
    BY <1>3, <1>4
  <2>3. frames'[c] = <<>> <=> Len(frames'[c]) = 0
    BY <2>2, EmptySeq
  <2> QED BY <2>1, <2>2, <2>3
<1>6. FramesOK'
  <2>1. FramesOK /\ own' = own
    BY <1>1 DEF Inv
  <2>2. \A i \in 1..Len(frames'[c]) : i \in 1..f /\ frames'[c][i] = frames[c][i]
    BY <1>2, <1>3, <1>4
  <2> QED BY <1>4, <2>1, <2>2 DEF FramesOK
<1>7. x \in {"idle", "running", "releasing"} /\ x \in PC /\ <<>> \in Seq(LockRequest)
  BY DEF PC
<1> HIDE DEF x
<1> QED BY <1>1, <1>4, <1>5, <1>6, <1>7, LocalStepInv

\* Forking a chain keeps the invariant: it only copies holders.
LEMMA ForkInv ==
  ASSUME Inv, NEW c \in Chains, NEW d \in Chains \ {c}, Fork(c, d)
  PROVE  Inv'
<1>1. /\ ctx' = [ctx EXCEPT ![d] = Held(c)]
      /\ UNCHANGED <<queues, ahead, active, pc, todo, own, frames>>
  BY DEF Fork
<1>2. Held(c) \subseteq Holder
  BY Types DEF Held, OwnSet
<1>3. ctx' \in [Chains -> SUBSET Holder]
  BY <1>1, <1>2, Types
<1>4. FramesOK'
  BY <1>1 DEF Inv, FramesOK
<1>5. QueuesOK(queues', pc', todo') /\ ActiveOK(active', pc', todo', own')
      /\ ClaimsOK(pc', todo', own')
  BY <1>1 DEF Inv
<1> QED BY <1>1, <1>3, <1>4, <1>5, Types, InvFromParts

\* The innermost lock of a chain that releases, and its stack without it.
LEMMA StackTop ==
  ASSUME Inv, NEW c \in Chains, pc[c] = "releasing",
         Len(own[c]) > frames[c][Len(frames[c])],
         own' = [own EXCEPT ![c] = SubSeq(@, 1, Len(own[c]) - 1)]
  PROVE  /\ own[c] \in Seq(Holder) /\ Len(own[c]) \in Nat /\ Len(own[c]) >= 1
         /\ Len(own[c]) \in 1..Len(own[c]) /\ own[c][Len(own[c])] \in Holder
         /\ frames[c] \in Seq(Nat) /\ Len(frames[c]) \in 1..Len(frames[c])
         /\ own' \in [Chains -> Seq(Holder)] /\ Len(own'[c]) = Len(own[c]) - 1
         /\ \A i \in 1..(Len(own[c]) - 1) : i \in 1..Len(own[c]) /\ own'[c][i] = own[c][i]
         /\ \A d \in Chains \ {c} : own'[d] = own[d]
<1> DEFINE top == Len(own[c])
<1>1. own[c] \in Seq(Holder) /\ frames[c] \in Seq(Nat) /\ frames[c] # <<>>
  BY Types
<1>2. Len(frames[c]) \in 1..Len(frames[c]) /\ top \in Nat
  BY <1>1
<1>3. frames[c][Len(frames[c])] \in Nat
  BY <1>1, <1>2
<1>4. top >= 1 /\ top \in 1..top
  BY <1>2, <1>3
<1>5. own[c][top] \in Holder
  BY <1>1, <1>4
<1>6. /\ SubSeq(own[c], 1, top - 1) \in Seq(Holder)
      /\ Len(SubSeq(own[c], 1, top - 1)) = top - 1
      /\ \A i \in 1..(top - 1) : i \in 1..top /\ SubSeq(own[c], 1, top - 1)[i] = own[c][i]
  BY <1>1, <1>2, <1>4
<1>7. /\ own' \in [Chains -> Seq(Holder)]
      /\ own'[c] = SubSeq(own[c], 1, top - 1)
      /\ \A d \in Chains \ {c} : own'[d] = own[d]
  BY <1>6, Types
<1> QED BY <1>1, <1>2, <1>4, <1>5, <1>6, <1>7

\* Releasing the innermost lock keeps the invariant.
LEMMA ReleaseInv ==
  ASSUME Inv, NEW c \in Chains, Release(c)
  PROVE  Inv'
<1> DEFINE top == Len(own[c])
           r == own[c][top].req
<1>1. /\ pc[c] = "releasing" /\ top > frames[c][Len(frames[c])]
      /\ own' = [own EXCEPT ![c] = SubSeq(@, 1, top - 1)]
      /\ ctx' = [d \in Chains |-> ctx[d] \ {own[c][top]}]
      /\ pump(queues, ahead, active \ {r}, pc)
      /\ todo' = todo /\ frames' = frames
  BY DEF Release, releaseOne
<1>2. /\ own[c] \in Seq(Holder) /\ top \in Nat /\ frames[c] \in Seq(Nat)
      /\ Len(frames[c]) \in 1..Len(frames[c])
  BY <1>1, StackTop
<1>3. top >= 1 /\ top \in 1..top
  BY <1>1, StackTop
<1>4. Len(own'[c]) = top - 1 /\ \A i \in 1..(top - 1) : i \in 1..top /\ own'[c][i] = own[c][i]
  BY <1>1, StackTop
<1>5. own' \in [Chains -> Seq(Holder)] /\ \A d \in Chains \ {c} : own'[d] = own[d]
  BY <1>1, StackTop
<1>6. \A d \in Chains : /\ Claims(d, pc, todo, own') \subseteq Claims(d, pc, todo, own)
                        /\ r \notin Claims(d, pc, todo, own')
  <2>1. r \in Claims(c, pc, todo, own)
    BY <1>3 DEF Claims
  <2>2. \A i \in 1..(top - 1) : own'[c][i] = own[c][i] /\ own[c][i].req # r
    <3>1. \A i \in 1..(top - 1) : i \in 1..top /\ i # top
      BY <1>2
    <3>2. \A i, j \in 1..Len(own[c]) : i # j => own[c][i].req # own[c][j].req
      BY DEF Inv, ClaimsOK
    <3> QED BY <1>3, <1>4, <1>5, <3>1, <3>2
  <2>3. Claims(c, pc, todo, own') = {own'[c][i].req : i \in 1..(top - 1)}
    BY <1>1, <1>4, <1>5 DEF Claims
  <2>4. Claims(c, pc, todo, own) = {own[c][i].req : i \in 1..top}
    BY <1>1 DEF Claims
  <2>5. Claims(c, pc, todo, own') \subseteq Claims(c, pc, todo, own)
    BY <2>2, <2>3, <2>4, <1>4
  <2>6. r \notin Claims(c, pc, todo, own')
    BY <2>2, <2>3
  <2>7. \A d \in Chains \ {c} : Claims(d, pc, todo, own') = Claims(d, pc, todo, own)
    BY <1>5 DEF Claims
  <2>8. \A d \in Chains \ {c} : r \notin Claims(d, pc, todo, own)
    BY <2>1 DEF Inv, ClaimsOK
  <2> QED BY <2>5, <2>6, <2>7, <2>8
<1>7. ActiveOK(active \ {r}, pc, todo, own')
  BY <1>6 DEF Inv, ActiveOK
<1>8. ClaimsOK(pc, todo, own')
  <2>1. \A d, e \in Chains : d # e => Claims(d, pc, todo, own') \cap Claims(e, pc, todo, own') = {}
    BY <1>6 DEF Inv, ClaimsOK
  <2>2. \A d \in Chains : \A i \in 1..Len(own'[d]) : i \in 1..Len(own[d]) /\ own'[d][i] = own[d][i]
    BY <1>4, <1>5
  <2>3. \A d \in Chains : \A i, j \in 1..Len(own'[d]) : i # j => own'[d][i].req # own'[d][j].req
    <3>1. \A d \in Chains : \A i, j \in 1..Len(own[d]) : i # j => own[d][i].req # own[d][j].req
      BY DEF Inv, ClaimsOK
    <3> QED BY <2>2, <3>1
  <2>4. \A d \in Chains : \A i \in 1..Len(own'[d]) :
           pc[d] = "granted" => own'[d][i].req # Head(todo[d])
    <3>1. \A d \in Chains : \A i \in 1..Len(own[d]) :
             pc[d] = "granted" => own[d][i].req # Head(todo[d])
      BY DEF Inv, ClaimsOK
    <3> QED BY <2>2, <3>1
  <2> QED BY <2>1, <2>3, <2>4 DEF ClaimsOK
<1>9. active \ {r} \in SUBSET LockRequest /\ ahead \in SUBSET Domains
  BY Types
<1>10. QueuesOK(queues, pc, todo)
  BY DEF Inv
<1>11. /\ queues' \in [Domains -> Seq(Waiter)]
       /\ ahead' \subseteq Domains
       /\ active' \subseteq LockRequest
       /\ pc' \in [Chains -> PC]
       /\ \A d \in Chains : pc'[d] = "idle" <=> pc[d] = "idle"
       /\ QueuesOK(queues', pc', todo)
       /\ ActiveOK(active', pc', todo, own')
       /\ ClaimsOK(pc', todo, own')
  <2> HIDE DEF r, top
  <2>1. pump(queues, ahead, active \ {r}, pc)
    BY <1>1
  <2>2. pc \in [Chains -> PC] /\ todo \in [Chains -> Seq(LockRequest)]
    BY Types
  <2> QED BY <2>1, <2>2, <1>5, <1>7, <1>8, <1>9, <1>10, PumpOK
<1>12. ctx' \in [Chains -> SUBSET Holder]
  BY <1>1, Types
<1>13. FramesOK'
  <2>1. \A i \in 1..Len(frames[c]) : frames[c][i] <= top - 1
    <3>1. \A i \in 1..Len(frames[c]) : /\ frames[c][i] \in Nat
                                       /\ frames[c][i] <= frames[c][Len(frames[c])]
      <4>1. \A i, j \in 1..Len(frames[c]) : i <= j => frames[c][i] <= frames[c][j]
        BY DEF Inv, FramesOK
      <4> QED BY <1>2, <4>1
    <3> QED BY <1>1, <1>2, <3>1
  <2>2. Len(own'[c]) = top - 1
    BY <1>4, <1>5
  <2>3. FramesOK
    BY DEF Inv
  <2> QED BY <1>1, <1>5, <2>1, <2>2, <2>3 DEF FramesOK
<1> QED BY <1>1, <1>5, <1>11, <1>12, <1>13, Types, InvFromParts

\* The invariant is inductive: every action of Next keeps it.
LEMMA InvInductive == Inv /\ [Next]_vars => Inv'
<1> SUFFICES ASSUME Inv, [Next]_vars PROVE Inv'
  OBVIOUS
<1>1. CASE UNCHANGED vars
  BY <1>1, Types, InvFromParts DEF vars, Inv, FramesOK
<1>2. ASSUME NEW c \in Chains, NEW S \in Calls, withLocks(c, S) PROVE Inv'
  BY <1>2, WithLocksInv
<1>3. ASSUME NEW c \in Chains, Resume(c) PROVE Inv'
  BY <1>3, ResumeInv
<1>4. ASSUME NEW c \in Chains, Finish(c) PROVE Inv'
  BY <1>4, FinishInv
<1>5. ASSUME NEW c \in Chains, Release(c) PROVE Inv'
  BY <1>5, ReleaseInv
<1>6. ASSUME NEW c \in Chains, Return(c) PROVE Inv'
  BY <1>6, ReturnInv
<1>7. ASSUME NEW c \in Chains, NEW d \in Chains \ {c}, Fork(c, d) PROVE Inv'
  BY <1>7, ForkInv
<1> QED BY <1>1, <1>2, <1>3, <1>4, <1>5, <1>6, <1>7 DEF Next

\* Every reachable state of the registry satisfies the invariant.
THEOREM LockInvariant == Spec => []Inv
BY InitInv, InvInductive, PTL DEF Spec

\* withLocks never lets two chains hold conflicting locks, for any set of
\* chains, requests and calls, nested or forked in any way.
THEOREM LockExclusion == Spec => []MutualExclusion
<1>1. Inv => MutualExclusion
  <2> SUFFICES ASSUME Inv, NEW c \in Chains, NEW d \in Chains, c # d,
                      NEW g \in OwnSet(c), NEW h \in OwnSet(d)
               PROVE  ~locksConflict(g.req, h.req)
    BY DEF MutualExclusion
  <2>1. g.req \in Claims(c, pc, todo, own) /\ h.req \in Claims(d, pc, todo, own)
    BY DEF OwnSet, Claims
  <2>2. g.req # h.req
    BY <2>1 DEF Inv, ClaimsOK
  <2>3. g.req \in active /\ h.req \in active
    BY <2>1 DEF Inv, ActiveOK
  <2> QED BY <2>2, <2>3 DEF Inv, ActiveOK
<1> QED BY <1>1, LockInvariant, PTL

\* Type correctness of the registry.
THEOREM LockTypes == Spec => []TypeOK
<1>1. Inv => TypeOK
  BY DEF Inv
<1> QED BY <1>1, LockInvariant, PTL

-----------------------------------------------------------------------------
(***************************************************************************)
(* The registry as a lock table: what each action does to the claims that  *)
(* are held and to those that wait, and the refinement of LockTable.       *)
(***************************************************************************)

\* The holders of a chain, with p, t and o for the values of pc, todo and own:
\* those on its stack and the one it is about to resume with.
HeldBy(c, p, t, o) ==
  {o[c][i] : i \in 1..Len(o[c])}
    \union (IF p[c] = "granted" THEN {[req |-> Head(t[c]), chain |-> c]} ELSE {})
HeldOf(p, t, o) == UNION {HeldBy(c, p, t, o) : c \in Chains}
QueuedOf(q) == UNION {{q[d][i] : i \in 1..Len(q[d])} : d \in Domains}

\* A chain holds only what it asked for itself.
OwnersOK(p, t, o) == \A c \in Chains : \A h \in HeldBy(c, p, t, o) : h.chain = c

\* What the invariant above leaves open: no held request without a holder, no
\* waiter without a reason, no chain in its own way.
TableOK ==
  /\ OwnersOK(pc, todo, own)
  /\ active \subseteq {h.req : h \in HeldClaims}
  /\ NoLostGrant
  /\ NoSelfWait

\* Membership in the two unions.
LEMMA InHeldOf ==
  ASSUME NEW p, NEW t, NEW o, NEW x
  PROVE  x \in HeldOf(p, t, o) <=> \E c \in Chains : x \in HeldBy(c, p, t, o)
BY DEF HeldOf

\* Membership in the queues.
LEMMA InQueuedOf ==
  ASSUME NEW q, NEW x
  PROVE  x \in QueuedOf(q) <=> \E d \in Domains : \E i \in 1..Len(q[d]) : x = q[d][i]
BY DEF QueuedOf

\* The refinement mapping, in terms of the operators above.
LEMMA TableMapping ==
  /\ HeldClaims = HeldOf(pc, todo, own)
  /\ QueuedClaims = QueuedOf(queues)
<1>1. ASSUME NEW x PROVE x \in HeldClaims <=> x \in HeldOf(pc, todo, own)
  <2>1. x \in HeldOf(pc, todo, own) <=> \E c \in Chains : x \in HeldBy(c, pc, todo, own)
    BY InHeldOf
  <2>2. x \in HeldClaims <=>
          \/ \E c \in Chains : x \in OwnSet(c)
          \/ \E c \in Chains : pc[c] = "granted" /\ x = [req |-> Head(todo[c]), chain |-> c]
    BY DEF HeldClaims
  <2>3. \A c \in Chains : x \in HeldBy(c, pc, todo, own) <=>
          \/ x \in OwnSet(c)
          \/ pc[c] = "granted" /\ x = [req |-> Head(todo[c]), chain |-> c]
    BY DEF HeldBy, OwnSet
  <2> QED BY <2>1, <2>2, <2>3
<1>2. QueuedClaims = QueuedOf(queues)
  BY DEF QueuedClaims, QueuedOf
<1> QED BY <1>1, <1>2

\* The same after a step.
LEMMA TableMappingNext ==
  /\ HeldClaims' = HeldOf(pc', todo', own')
  /\ QueuedClaims' = QueuedOf(queues')
<1>1. (/\ HeldClaims = HeldOf(pc, todo, own)
       /\ QueuedClaims = QueuedOf(queues))'
  BY TableMapping, PTL
<1> QED BY <1>1

\* pump moves some waiters from the queues to the held locks, and stops only
\* when every queue is empty or has a head that a held lock keeps out.
LEMMA PumpGrants ==
  ASSUME NEW q, NEW h \in SUBSET Domains, NEW a \in SUBSET LockRequest,
         NEW p \in [Chains -> PC], NEW t \in [Chains -> Seq(LockRequest)],
         NEW o \in [Chains -> Seq(Holder)],
         QueuesOK(q, p, t), OwnersOK(p, t, o),
         pump(q, h, a, p)
  PROVE  /\ \E G \in SUBSET QueuedOf(q) :
              /\ HeldOf(pc', t, o) = HeldOf(p, t, o) \union G
              /\ QueuedOf(queues') = QueuedOf(q) \ G
              /\ active' = a \union {w.req : w \in G}
         /\ OwnersOK(pc', t, o)
         /\ \A c \in Chains : pc'[c] = p[c] \/ pc'[c] = "granted"
         /\ NoLostGrant'
<1>0. Cardinality(Chains) \in Nat
  BY RequestAssumption, FS_CardinalityType
<1>1. PICK n \in [Domains -> 0..Cardinality(Chains)] :
        /\ \A d \in Domains : n[d] <= Len(q[d])
        /\ \A d \in Domains : n[d] < Len(q[d]) =>
             \E r \in a \union {w.req : w \in Granted(q, n)} : locksConflict(r, q[d][n[d] + 1].req)
        /\ queues' = Remaining(q, n)
        /\ active' = a \union {w.req : w \in Granted(q, n)}
        /\ pc' = Wake(p, Granted(q, n))
  BY DEF pump
<1> DEFINE G == Granted(q, n)
<1>2. \A d \in Domains : n[d] \in Nat /\ q[d] \in Seq(Waiter) /\ n[d] <= Len(q[d])
  <2>1. q \in [Domains -> Seq(Waiter)]
    BY DEF QueuesOK
  <2>2. \A d \in Domains : n[d] \in 0..Cardinality(Chains) /\ n[d] <= Len(q[d])
    BY <1>1
  <2> QED BY <1>0, <2>1, <2>2
<1>3. \A w \in G : \E d \in Domains : \E i \in 1..n[d] : w = q[d][i] /\ i \in 1..Len(q[d])
  BY <1>2 DEF Granted
<1>4. \A d \in Domains : \A i \in 1..n[d] : q[d][i] \in G
  BY DEF Granted
<1>5. \A w \in G : /\ w \in Waiter /\ p[w.chain] = "waiting"
                   /\ Head(t[w.chain]) = w.req
  BY <1>2, <1>3 DEF QueuesOK
<1>6. \A c \in Chains : /\ (\E w \in G : w.chain = c) => pc'[c] = "granted"
                        /\ ~(\E w \in G : w.chain = c) => pc'[c] = p[c]
  BY <1>1 DEF Wake
<1>7. \A w \in G : w.chain \in Chains /\ w = [req |-> Head(t[w.chain]), chain |-> w.chain]
  <2> TAKE w \in G
  <2>1. w \in Waiter /\ Head(t[w.chain]) = w.req
    BY <1>5
  <2> QED BY <2>1 DEF Waiter
<1>8. \A d \in Domains :
        /\ Len(queues'[d]) = Len(q[d]) - n[d]
        /\ \A i \in 1..(Len(q[d]) - n[d]) : queues'[d][i] = q[d][i + n[d]]
        /\ queues'[d] \in Seq(Waiter)
  <2> TAKE d \in Domains
  <2>1. queues'[d] = SubSeq(q[d], n[d] + 1, Len(q[d]))
    BY <1>1 DEF Remaining
  <2>2. n[d] \in 0..Len(q[d]) /\ q[d] \in Seq(Waiter)
    BY <1>2
  <2> QED BY <2>1, <2>2, DropSeq
<1> HIDE DEF G
<1>9. G \in SUBSET QueuedOf(q)
  <2> SUFFICES ASSUME NEW w \in G PROVE w \in QueuedOf(q)
    OBVIOUS
  <2>1. \E d \in Domains : \E i \in 1..Len(q[d]) : w = q[d][i]
    BY <1>3
  <2> QED BY <2>1, InQueuedOf
<1>10. \A c \in Chains : HeldBy(c, pc', t, o) = HeldBy(c, p, t, o) \union {w \in G : w.chain = c}
  <2> TAKE c \in Chains
  <2>1. CASE \E w \in G : w.chain = c
    <3>1. pc'[c] = "granted" /\ p[c] = "waiting"
      BY <2>1, <1>5, <1>6
    <3>2. {w \in G : w.chain = c} = {[req |-> Head(t[c]), chain |-> c]}
      BY <2>1, <1>7
    <3> QED BY <3>1, <3>2 DEF HeldBy
  <2>2. CASE ~ \E w \in G : w.chain = c
    <3>1. pc'[c] = p[c] /\ {w \in G : w.chain = c} = {}
      BY <2>2, <1>6
    <3> QED BY <3>1 DEF HeldBy
  <2> QED BY <2>1, <2>2
<1>11. HeldOf(pc', t, o) = HeldOf(p, t, o) \union G
  <2>1. ASSUME NEW x PROVE x \in HeldOf(pc', t, o) <=> x \in HeldOf(p, t, o) \/ x \in G
    <3>1. x \in HeldOf(pc', t, o) <=> \E c \in Chains : x \in HeldBy(c, pc', t, o)
      BY InHeldOf
    <3>2. x \in HeldOf(p, t, o) <=> \E c \in Chains : x \in HeldBy(c, p, t, o)
      BY InHeldOf
    <3>3. \A c \in Chains : x \in HeldBy(c, pc', t, o) <=>
             x \in HeldBy(c, p, t, o) \/ (x \in G /\ x.chain = c)
      BY <1>10
    <3>4. x \in G => x.chain \in Chains
      BY <1>7
    <3> QED BY <3>1, <3>2, <3>3, <3>4
  <2> QED BY <2>1
<1>12. OwnersOK(pc', t, o)
  BY <1>10 DEF OwnersOK
<1>13. QueuedOf(queues') = QueuedOf(q) \ G
  <2>1. \A d \in Domains : \A i \in 1..Len(queues'[d]) :
          i + n[d] \in 1..Len(q[d]) /\ queues'[d][i] = q[d][i + n[d]]
    <3> TAKE d \in Domains
    <3>1. /\ n[d] \in Nat /\ Len(q[d]) \in Nat /\ n[d] <= Len(q[d])
          /\ Len(queues'[d]) = Len(q[d]) - n[d]
          /\ \A i \in 1..(Len(q[d]) - n[d]) : queues'[d][i] = q[d][i + n[d]]
      BY <1>2, <1>8
    <3>2. \A i \in 1..(Len(q[d]) - n[d]) : i + n[d] \in 1..Len(q[d])
      BY <3>1
    <3> QED BY <3>1, <3>2
  <2>2. \A d, e \in Domains : \A b \in 1..Len(q[d]), l \in 1..Len(q[e]) :
          q[d][b].chain = q[e][l].chain => d = e /\ b = l
    BY Zenon DEF QueuesOK
  <2>3. ASSUME NEW d \in Domains, NEW i \in 1..Len(queues'[d])
        PROVE  queues'[d][i] \in QueuedOf(q) /\ queues'[d][i] \notin G
    <3>1. i + n[d] \in 1..Len(q[d]) /\ queues'[d][i] = q[d][i + n[d]]
      BY <2>1
    <3>2. ASSUME NEW e \in Domains, NEW j \in 1..n[e], j \in 1..Len(q[e]),
                 q[d][i + n[d]] = q[e][j]
          PROVE  FALSE
      <4>0. q[d][i + n[d]].chain = q[e][j].chain
        BY <3>2
      <4>1. \A b \in 1..Len(q[d]), l \in 1..Len(q[e]) :
              q[d][b].chain = q[e][l].chain => d = e /\ b = l
        BY <2>2, Zenon
      <4>2. d = e /\ i + n[d] = j
        BY <3>1, <3>2, <4>0, <4>1
      <4>3. n[d] \in Nat /\ i \in Nat /\ i > 0 /\ j <= n[d]
        BY <4>2, <1>2, <1>8
      <4> QED BY <4>2, <4>3
    <3>3. queues'[d][i] \notin G
      BY <3>1, <3>2, <1>3
    <3> QED BY <3>1, <3>3, InQueuedOf
  <2>4. ASSUME NEW d \in Domains, NEW i \in 1..Len(q[d]), q[d][i] \notin G
        PROVE  \E j \in 1..Len(queues'[d]) : queues'[d][j] = q[d][i]
    <3>1. i \notin 1..n[d]
      <4> SUFFICES ASSUME i \in 1..n[d] PROVE FALSE
        OBVIOUS
      <4> QED BY <2>4, <1>4
    <3>2. /\ n[d] \in Nat /\ Len(q[d]) \in Nat /\ n[d] <= Len(q[d])
          /\ Len(queues'[d]) = Len(q[d]) - n[d]
          /\ \A j \in 1..(Len(q[d]) - n[d]) : queues'[d][j] = q[d][j + n[d]]
      BY <1>2, <1>8
    <3>3. i - n[d] \in 1..(Len(q[d]) - n[d]) /\ (i - n[d]) + n[d] = i
      BY <3>1, <3>2
    <3> QED BY <3>2, <3>3
  <2>5. QueuedOf(queues') \subseteq QueuedOf(q) \ G
    <3> SUFFICES ASSUME NEW x \in QueuedOf(queues') PROVE x \in QueuedOf(q) /\ x \notin G
      OBVIOUS
    <3>1. \E d \in Domains : \E i \in 1..Len(queues'[d]) : x = queues'[d][i]
      BY DEF QueuedOf
    <3> QED BY <2>3, <3>1
  <2>6. QueuedOf(q) \ G \subseteq QueuedOf(queues')
    <3> SUFFICES ASSUME NEW x \in QueuedOf(q), x \notin G PROVE x \in QueuedOf(queues')
      OBVIOUS
    <3>1. PICK d \in Domains : \E i \in 1..Len(q[d]) : x = q[d][i]
      BY InQueuedOf
    <3>2. PICK i \in 1..Len(q[d]) : x = q[d][i]
      BY <3>1
    <3>3. \E j \in 1..Len(queues'[d]) : x = queues'[d][j]
      BY <2>4, <3>2
    <3> QED BY <3>3, InQueuedOf
  <2> QED BY <2>5, <2>6
<1>14. NoLostGrant'
  <2> SUFFICES ASSUME NEW d \in Domains, queues'[d] # <<>>
               PROVE  \E r \in active' : locksConflict(r, Head(queues'[d]).req)
    BY DEF NoLostGrant
  <2>1. /\ n[d] \in Nat /\ Len(q[d]) \in Nat /\ n[d] <= Len(q[d])
        /\ Len(queues'[d]) = Len(q[d]) - n[d]
        /\ queues'[d] \in Seq(Waiter)
    BY <1>2, <1>8
  <2>2. Len(queues'[d]) # 0
    BY <2>1, EmptySeq
  <2>3. n[d] < Len(q[d]) /\ 1 \in 1..(Len(q[d]) - n[d]) /\ 1 + n[d] = n[d] + 1
    BY <2>1, <2>2
  <2>4. Head(queues'[d]) = queues'[d][1]
    BY <2>1, <2>2
  <2>5. queues'[d][1] = q[d][n[d] + 1]
    BY <1>8, <2>3
  <2>6. \E r \in a \union {w.req : w \in Granted(q, n)} : locksConflict(r, q[d][n[d] + 1].req)
    BY <1>1, <2>3
  <2> QED BY <1>1, <2>4, <2>5, <2>6
<1>15. active' = a \union {w.req : w \in G}
  BY <1>1 DEF G
<1> QED BY <1>6, <1>9, <1>11, <1>12, <1>13, <1>14, <1>15

\* Queueing a claim adds it to the claims that wait.
LEMMA EnqueueTable ==
  ASSUME Inv, NEW r \in LockRequest, NEW c \in Chains
  PROVE  QueuedOf([queues EXCEPT ![Domain(r)] = Append(@, [req |-> r, chain |-> c])])
           = QueuedOf(queues) \union {[req |-> r, chain |-> c]}
<1> DEFINE D == Domain(r)
           w == [req |-> r, chain |-> c]
           q == [queues EXCEPT ![D] = Append(@, w)]
<1>1. queues \in [Domains -> Seq(Waiter)] /\ D \in Domains /\ w \in Waiter
  BY Types DEF Domains, Waiter
<1>2. q[D] = Append(queues[D], w) /\ \A d \in Domains \ {D} : q[d] = queues[d]
  BY <1>1
<1> HIDE DEF w, D, q
<1>3. /\ Len(queues[D]) \in Nat /\ Len(q[D]) = Len(queues[D]) + 1
      /\ q[D][Len(queues[D]) + 1] = w
      /\ \A i \in 1..Len(queues[D]) : q[D][i] = queues[D][i]
      /\ \A i \in 1..Len(q[D]) : i \in 1..Len(queues[D]) \/ i = Len(queues[D]) + 1
  BY <1>1, <1>2, AppendSeq
<1>4. /\ \A i \in 1..Len(queues[D]) : i \in 1..Len(q[D])
      /\ Len(queues[D]) + 1 \in 1..Len(q[D])
  BY <1>3
<1>5. ASSUME NEW x
      PROVE  (\E d \in Domains : \E i \in 1..Len(q[d]) : x = q[d][i]) <=>
             (\E d \in Domains : \E i \in 1..Len(queues[d]) : x = queues[d][i]) \/ x = w
  <2>1. (\E i \in 1..Len(q[D]) : x = q[D][i]) <=>
        (\E i \in 1..Len(queues[D]) : x = queues[D][i]) \/ x = w
    BY <1>3, <1>4
  <2>2. \A d \in Domains \ {D} : (\E i \in 1..Len(q[d]) : x = q[d][i]) <=>
                                 (\E i \in 1..Len(queues[d]) : x = queues[d][i])
    BY <1>2
  <2> QED BY <1>1, <2>1, <2>2
<1>6. QueuedOf(q) = QueuedOf(queues) \union {w}
  <2>1. ASSUME NEW x PROVE x \in QueuedOf(q) <=> x \in QueuedOf(queues) \/ x = w
    BY <1>5, InQueuedOf
  <2> QED BY <2>1
<1> QED BY <1>6 DEF q, w, D

\* A waiting chain is queued for what is first in its list, so a chain that
\* waits for nothing has no claim among those that wait.
LEMMA QueuedWaits ==
  ASSUME Inv, NEW x \in QueuedOf(queues)
  PROVE  x \in Waiter /\ x.chain \in Chains /\ pc[x.chain] = "waiting"
<1>1. \E d \in Domains : \E i \in 1..Len(queues[d]) : x = queues[d][i]
  BY InQueuedOf
<1> QED BY <1>1, InQueueWaits

\* What acquireChain does to the table: nothing, or one new claim is queued
\* and pump grants some of the claims that wait.
LEMMA AcquireTable ==
  ASSUME Inv, TableOK, NEW c \in Chains, NEW s \in Seq(LockRequest), NEW H,
         pc[c] # "waiting",
         own' \in [Chains -> Seq(Holder)],
         \A d \in Chains \ {c} : own'[d] = own[d],
         {own'[c][i] : i \in 1..Len(own'[c])} = HeldBy(c, pc, todo, own),
         ctx' = ctx,
         H = {own'[c][i] : i \in 1..Len(own'[c])} \union ctx[c],
         acquireChain(c, s, H)
  PROVE  /\ TableOK'
         /\ \/ HeldClaims' = HeldClaims /\ QueuedClaims' = QueuedClaims
            \/ \E k \in Holder \ (HeldClaims \union QueuedClaims) :
                 \E G \in SUBSET (QueuedClaims \union {k}) :
                   /\ HeldClaims' = HeldClaims \union G
                   /\ QueuedClaims' = (QueuedClaims \union {k}) \ G
<1>1. PICK i \in 1..(Len(s) + 1) :
        /\ todo' = [todo EXCEPT ![c] = SubSeq(s, i, Len(s))]
        /\ \/ \E x \in {"running", "releasing"} :
                /\ pc' = [pc EXCEPT ![c] = x]
                /\ UNCHANGED <<queues, ahead, active>>
           \/ /\ i <= Len(s)
              /\ \A h \in H : ~locksConflict(h.req, s[i])
              /\ acquireOne(c, s[i])
  BY DEF acquireChain
<1>2. /\ queues \in [Domains -> Seq(Waiter)] /\ ahead \subseteq Domains
      /\ active \subseteq LockRequest /\ pc \in [Chains -> PC]
      /\ todo \in [Chains -> Seq(LockRequest)] /\ own \in [Chains -> Seq(Holder)]
  BY Types
<1>3. /\ SubSeq(s, i, Len(s)) \in Seq(LockRequest)
      /\ i <= Len(s) => /\ SubSeq(s, i, Len(s)) # <<>>
                        /\ Head(SubSeq(s, i, Len(s))) = s[i]
                        /\ s[i] \in LockRequest
  BY RestOfList
<1>4. /\ todo' \in [Chains -> Seq(LockRequest)]
      /\ todo'[c] = SubSeq(s, i, Len(s))
      /\ \A d \in Chains \ {c} : todo'[d] = todo[d]
  BY <1>1, <1>2, <1>3
<1>5. ASSUME NEW x \in PC \ {"granted"}
      PROVE  /\ HeldOf([pc EXCEPT ![c] = x], todo', own') = HeldOf(pc, todo, own)
             /\ OwnersOK([pc EXCEPT ![c] = x], todo', own')
  <2> DEFINE p == [pc EXCEPT ![c] = x]
  <2>1. p[c] = x /\ \A d \in Chains \ {c} : p[d] = pc[d]
    BY <1>2
  <2> HIDE DEF p
  <2>2. HeldBy(c, p, todo', own') = HeldBy(c, pc, todo, own)
    <3>1. HeldBy(c, p, todo', own') = {own'[c][j] : j \in 1..Len(own'[c])}
      BY <2>1 DEF HeldBy
    <3> QED BY <3>1
  <2>3. \A d \in Chains \ {c} : HeldBy(d, p, todo', own') = HeldBy(d, pc, todo, own)
    BY <2>1, <1>4 DEF HeldBy
  <2>4. \A d \in Chains : HeldBy(d, p, todo', own') = HeldBy(d, pc, todo, own)
    BY <2>2, <2>3
  <2>5. HeldOf(p, todo', own') = HeldOf(pc, todo, own)
    BY <2>4 DEF HeldOf
  <2>6. OwnersOK(p, todo', own')
    BY <2>4 DEF OwnersOK, TableOK
  <2> QED BY <2>5, <2>6 DEF p
<1>6. \A d \in Chains \ {c} : /\ Held(d)' = Held(d)
                              /\ pc[d] = "waiting" =>
                                   \A h \in Held(d)' : ~locksConflict(h.req, Head(todo'[d]))
  <2> TAKE d \in Chains \ {c}
  <2>1. Held(d)' = Held(d)
    BY DEF Held, OwnSet
  <2> QED BY <2>1, <1>4 DEF TableOK, NoSelfWait
<1>7. HeldClaims' = HeldOf(pc', todo', own') /\ QueuedClaims' = QueuedOf(queues')
  BY TableMappingNext
<1>8. CASE \E x \in {"running", "releasing"} :
             /\ pc' = [pc EXCEPT ![c] = x]
             /\ UNCHANGED <<queues, ahead, active>>
  <2>1. PICK x \in {"running", "releasing"} : pc' = [pc EXCEPT ![c] = x]
    BY <1>8
  <2>2. HeldOf(pc', todo', own') = HeldOf(pc, todo, own) /\ OwnersOK(pc', todo', own')
    BY <1>5, <2>1 DEF PC
  <2>3. HeldClaims' = HeldClaims /\ QueuedClaims' = QueuedClaims
    BY <1>7, <1>8, <2>2, TableMapping
  <2>4. NoLostGrant'
    BY <1>8 DEF TableOK, NoLostGrant
  <2>5. NoSelfWait'
    BY <1>2, <1>6, <2>1 DEF NoSelfWait
  <2>6. active' \subseteq {h.req : h \in HeldClaims'}
    BY <1>8, <2>3 DEF TableOK
  <2> QED BY <2>2, <2>3, <2>4, <2>5, <2>6 DEF TableOK
<1>9. CASE /\ i <= Len(s)
           /\ \A h \in H : ~locksConflict(h.req, s[i])
           /\ acquireOne(c, s[i])
  <2> DEFINE r == s[i]
             D == Domain(r)
             k == [req |-> r, chain |-> c]
             p == [pc EXCEPT ![c] = "waiting"]
             q == [queues EXCEPT ![D] = Append(@, k)]
  <2>1. /\ r \in LockRequest /\ todo'[c] # <<>> /\ Head(todo'[c]) = r
        /\ \A h \in H : ~locksConflict(h.req, r)
    BY <1>3, <1>4, <1>9
  <2>2. pump(q, KeysBefore(D), active, p)
    BY <1>9 DEF acquireOne
  <2>3. KeysBefore(D) \in SUBSET Domains
    BY <1>2 DEF KeysBefore
  <2>4. /\ p \in [Chains -> PC] /\ p[c] = "waiting"
        /\ \A d \in Chains \ {c} : p[d] = pc[d]
    BY <1>2 DEF PC
  <2>5. HeldOf(p, todo', own') = HeldClaims /\ OwnersOK(p, todo', own')
    BY <1>5, TableMapping DEF PC
  <2> HIDE DEF r
  <2>6. QueuesOK(q, p, todo')
    BY <1>4, <2>1, EnqueueOK
  <2>7. QueuedOf(q) = QueuedClaims \union {k}
    BY <2>1, EnqueueTable, TableMapping
  <2>7a. k \in Holder /\ k.chain = c /\ k.req = r
    BY <2>1 DEF Holder
  <2> HIDE DEF q, p, k, D
  <2>8. /\ \E G \in SUBSET QueuedOf(q) :
             /\ HeldOf(pc', todo', own') = HeldOf(p, todo', own') \union G
             /\ QueuedOf(queues') = QueuedOf(q) \ G
             /\ active' = active \union {w.req : w \in G}
        /\ OwnersOK(pc', todo', own')
        /\ \A d \in Chains : pc'[d] = p[d] \/ pc'[d] = "granted"
        /\ NoLostGrant'
    BY <1>2, <1>4, <2>2, <2>3, <2>4, <2>5, <2>6, PumpGrants
  <2>9. PICK G \in SUBSET (QueuedClaims \union {k}) :
          /\ HeldClaims' = HeldClaims \union G
          /\ QueuedClaims' = (QueuedClaims \union {k}) \ G
          /\ active' = active \union {w.req : w \in G}
    BY <1>7, <2>5, <2>7, <2>8
  <2>10. k \notin QueuedClaims
    BY <2>7a, QueuedWaits, TableMapping
  <2>11. k \notin HeldClaims
    <3> SUFFICES ASSUME k \in HeldClaims PROVE FALSE
      OBVIOUS
    <3>1. PICK d \in Chains : k \in HeldBy(d, pc, todo, own)
      BY InHeldOf, TableMapping
    <3>2. d = c
      BY <3>1, <2>7a DEF TableOK, OwnersOK
    <3>3. k \in H
      BY <3>1, <3>2
    <3>4. ~locksConflict(r, r)
      BY <3>3, <2>1, <2>7a
    <3> QED BY <3>4, <2>1, ConflictReflexive
  <2>12. active' \subseteq {h.req : h \in HeldClaims'}
    BY <2>9 DEF TableOK
  <2>13. NoSelfWait'
    <3> SUFFICES ASSUME NEW d \in Chains, pc'[d] = "waiting"
                 PROVE  \A h \in Held(d)' : ~locksConflict(h.req, Head(todo'[d]))
      BY DEF NoSelfWait
    <3>1. p[d] = "waiting"
      BY <2>8
    <3>2. CASE d # c
      BY <1>6, <2>4, <3>1, <3>2
    <3>3. CASE d = c
      <4>1. Held(c)' = H
        BY DEF Held, OwnSet
      <4> QED BY <2>1, <3>3, <4>1
    <3> QED BY <3>2, <3>3
  <2>14. TableOK'
    BY <2>8, <2>12, <2>13 DEF TableOK
  <2> QED BY <2>7a, <2>9, <2>10, <2>11, <2>14
<1> QED BY <1>1, <1>8, <1>9

\* The table of a state without conflicts and not idle while somebody waits.
LEMMA TableSafe ==
  Inv /\ TableOK =>
    /\ HeldClaims \subseteq Holder
    /\ \A g, h \in HeldClaims : g # h => ~locksConflict(g.req, h.req)
    /\ QueuedClaims # {} => HeldClaims # {}
<1> SUFFICES ASSUME Inv, TableOK
             PROVE  /\ HeldClaims \subseteq Holder
                    /\ \A g, h \in HeldClaims : g # h => ~locksConflict(g.req, h.req)
                    /\ QueuedClaims # {} => HeldClaims # {}
  OBVIOUS
<1>1. \A h \in HeldClaims : /\ h \in Holder /\ h.chain \in Chains
                            /\ h.req \in Claims(h.chain, pc, todo, own)
  <2> TAKE h \in HeldClaims
  <2>1. PICK c \in Chains : h \in HeldBy(c, pc, todo, own)
    BY InHeldOf, TableMapping
  <2>2. h.chain = c
    BY <2>1 DEF TableOK, OwnersOK
  <2>3. CASE \E i \in 1..Len(own[c]) : h = own[c][i]
    <3>1. own[c] \in Seq(Holder)
      BY Types
    <3> QED BY <2>2, <2>3, <3>1 DEF Claims
  <2>4. CASE pc[c] = "granted" /\ h = [req |-> Head(todo[c]), chain |-> c]
    <3>1. todo[c] \in Seq(LockRequest) /\ todo[c] # <<>>
      BY <2>4, Types DEF Inv, ActiveOK
    <3>2. Head(todo[c]) \in LockRequest
      BY <3>1
    <3> QED BY <2>2, <2>4, <3>2 DEF Claims, Holder
  <2> QED BY <2>1, <2>3, <2>4 DEF HeldBy
<1>2. ASSUME NEW g \in HeldClaims, NEW h \in HeldClaims, g # h
      PROVE  ~locksConflict(g.req, h.req)
  <2>1. g.req \in active /\ h.req \in active
    BY <1>1 DEF Inv, ActiveOK
  <2>2. g.req # h.req
    <3>1. CASE g.chain = h.chain
      BY <1>1, <1>2, <3>1 DEF Holder
    <3>2. CASE g.chain # h.chain
      BY <1>1, <3>2 DEF Inv, ClaimsOK
    <3> QED BY <3>1, <3>2
  <2> QED BY <2>1, <2>2 DEF Inv, ActiveOK
<1>3. ASSUME QueuedClaims # {} PROVE HeldClaims # {}
  <2>1. PICK d \in Domains : \E i \in 1..Len(queues[d]) : TRUE
    BY <1>3 DEF QueuedClaims
  <2>2. queues[d] # <<>>
    BY <2>1
  <2>3. active # {}
    BY <2>2 DEF TableOK, NoLostGrant
  <2> QED BY <2>3 DEF TableOK
<1> QED BY <1>1, <1>2, <1>3

\* A change of held and waiting claims that ends in such a table is a Settle
\* of the lock table.
LEMMA SettleStep ==
  ASSUME Inv', TableOK', NEW W, NEW H, NEW G \in SUBSET W,
         HeldClaims' = H \union G, QueuedClaims' = W \ G
  PROVE  Table!Settle(W, H)
<1>1. (Inv /\ TableOK =>
         /\ HeldClaims \subseteq Holder
         /\ \A g, h \in HeldClaims : g # h => ~locksConflict(g.req, h.req)
         /\ QueuedClaims # {} => HeldClaims # {})'
  BY TableSafe, PTL
<1>2. /\ \A g, h \in HeldClaims' : g # h => ~locksConflict(g.req, h.req)
      /\ QueuedClaims' # {} => HeldClaims' # {}
  BY <1>1
<1>3. \A g, h \in HeldClaims' : g # h =>
        <<g, h>> \notin {p \in Holder \X Holder : locksConflict(p[1].req, p[2].req)}
  BY <1>2
<1> QED BY <1>2, <1>3 DEF Table!Settle

\* A chain's stack after a step that leaves stacks and pending grants alone.
LEMMA SameTable ==
  ASSUME Inv, TableOK, NEW c \in Chains, own' = own, queues' = queues,
         active' = active, pc[c] \in {"running", "releasing"},
         pc' \in [Chains -> PC], pc'[c] \in {"idle", "running", "releasing"},
         \A d \in Chains \ {c} : pc'[d] = pc[d] /\ todo'[d] = todo[d],
         \A d \in Chains : pc'[d] = "waiting" => ctx'[d] = ctx[d]
  PROVE  TableOK' /\ HeldClaims' = HeldClaims /\ QueuedClaims' = QueuedClaims
<1>1. \A d \in Chains : HeldBy(d, pc', todo', own') = HeldBy(d, pc, todo, own)
  BY DEF HeldBy
<1>2. HeldOf(pc', todo', own') = HeldOf(pc, todo, own)
  BY <1>1 DEF HeldOf
<1>3. HeldClaims' = HeldClaims /\ QueuedClaims' = QueuedClaims
  BY <1>2, TableMapping, TableMappingNext
<1>4. OwnersOK(pc', todo', own')
  BY <1>1 DEF OwnersOK, TableOK
<1>5. NoLostGrant'
  BY DEF NoLostGrant, TableOK
<1>6. NoSelfWait'
  <2> SUFFICES ASSUME NEW d \in Chains, pc'[d] = "waiting"
               PROVE  \A h \in Held(d)' : ~locksConflict(h.req, Head(todo'[d]))
    BY DEF NoSelfWait
  <2>1. d # c /\ pc[d] = "waiting" /\ todo'[d] = todo[d]
    OBVIOUS
  <2>2. Held(d)' = Held(d)
    BY DEF Held, OwnSet
  <2> QED BY <2>1, <2>2 DEF TableOK, NoSelfWait
<1>7. active' \subseteq {h.req : h \in HeldClaims'}
  BY <1>3 DEF TableOK
<1> QED BY <1>3, <1>4, <1>5, <1>6, <1>7 DEF TableOK

\* What a step of the registry does to the table: nothing, a claim is asked
\* for, or a held claim is given up; then pump grants claims that wait.
TableStep ==
  \/ HeldClaims' = HeldClaims /\ QueuedClaims' = QueuedClaims
  \/ \E k \in Holder \ (HeldClaims \union QueuedClaims) :
       \E G \in SUBSET (QueuedClaims \union {k}) :
         /\ HeldClaims' = HeldClaims \union G
         /\ QueuedClaims' = (QueuedClaims \union {k}) \ G
  \/ \E k \in HeldClaims : \E G \in SUBSET QueuedClaims :
       /\ HeldClaims' = (HeldClaims \ {k}) \union G
       /\ QueuedClaims' = QueuedClaims \ G

\* A withLocks call, seen from the table.
LEMMA WithLocksTable ==
  ASSUME Inv, TableOK, NEW c \in Chains, NEW S \in Calls, withLocks(c, S)
  PROVE  TableOK' /\ TableStep
<1>1. PICK s \in [1..Cardinality(S) -> S] : acquireChain(c, s, Held(c))
  BY DEF withLocks
<1>2. s \in Seq(LockRequest)
  <2>1. Cardinality(S) \in Nat /\ S \subseteq LockRequest
    BY RequestAssumption, FS_CardinalityType
  <2> QED BY <2>1
<1>3. pc[c] \in {"idle", "running"} /\ own' = own /\ ctx' = ctx
  BY DEF withLocks
<1>4. {own'[c][i] : i \in 1..Len(own'[c])} = HeldBy(c, pc, todo, own)
  BY <1>3 DEF HeldBy
<1>5. Held(c) = {own'[c][i] : i \in 1..Len(own'[c])} \union ctx[c]
  BY <1>3 DEF Held, OwnSet
<1>6. own' \in [Chains -> Seq(Holder)] /\ \A d \in Chains \ {c} : own'[d] = own[d]
  BY <1>3, Types
<1> QED BY <1>1, <1>2, <1>3, <1>4, <1>5, <1>6, AcquireTable DEF TableStep

\* Resuming with a granted lock, seen from the table.
LEMMA ResumeTable ==
  ASSUME Inv, TableOK, NEW c \in Chains, Resume(c)
  PROVE  TableOK' /\ TableStep
<1> DEFINE h == [req |-> Head(todo[c]), chain |-> c]
<1>1. /\ pc[c] = "granted" /\ own' = [own EXCEPT ![c] = Append(@, h)]
      /\ acquireChain(c, Tail(todo[c]), Held(c) \union {h})
      /\ ctx' = ctx
  BY DEF Resume
<1>2. todo[c] # <<>> /\ todo[c] \in Seq(LockRequest)
  BY <1>1, Types DEF Inv, ActiveOK
<1>3. Tail(todo[c]) \in Seq(LockRequest) /\ Head(todo[c]) \in LockRequest
  BY <1>2
<1>4. h \in Holder
  BY <1>3 DEF Holder
<1>5. HeldBy(c, pc, todo, own) = {own[c][i] : i \in 1..Len(own[c])} \union {h}
  BY <1>1 DEF HeldBy
<1> HIDE DEF h
<1>6. /\ own' \in [Chains -> Seq(Holder)]
      /\ \A d \in Chains \ {c} : own'[d] = own[d]
      /\ own'[c] = Append(own[c], h)
      /\ own[c] \in Seq(Holder)
  BY <1>1, <1>4, Types
<1>7. /\ Len(own[c]) \in Nat /\ Len(own'[c]) = Len(own[c]) + 1
      /\ own'[c][Len(own[c]) + 1] = h
      /\ \A i \in 1..Len(own[c]) : own'[c][i] = own[c][i]
      /\ \A i \in 1..Len(own'[c]) : i \in 1..Len(own[c]) \/ i = Len(own[c]) + 1
  BY <1>4, <1>6, AppendSeq
<1>8. /\ \A i \in 1..Len(own[c]) : i \in 1..Len(own'[c])
      /\ Len(own[c]) + 1 \in 1..Len(own'[c])
  BY <1>7
<1>9. {own'[c][i] : i \in 1..Len(own'[c])} = {own[c][i] : i \in 1..Len(own[c])} \union {h}
  BY <1>7, <1>8
<1>10. Held(c) \union {h} = {own'[c][i] : i \in 1..Len(own'[c])} \union ctx[c]
  BY <1>9 DEF Held, OwnSet
<1> QED BY <1>1, <1>3, <1>5, <1>6, <1>9, <1>10, AcquireTable DEF TableStep

\* Releasing the innermost lock, seen from the table.
LEMMA ReleaseTable ==
  ASSUME Inv, TableOK, NEW c \in Chains, Release(c)
  PROVE  TableOK' /\ TableStep
<1> DEFINE top == Len(own[c])
           k == own[c][top]
<1>1. /\ pc[c] = "releasing" /\ top > frames[c][Len(frames[c])]
      /\ own' = [own EXCEPT ![c] = SubSeq(@, 1, top - 1)]
      /\ ctx' = [d \in Chains |-> ctx[d] \ {k}]
      /\ pump(queues, ahead, active \ {k.req}, pc)
      /\ todo' = todo
  BY DEF Release, releaseOne
<1>2. own[c] \in Seq(Holder) /\ top \in Nat /\ top >= 1 /\ k \in Holder
  BY <1>1, StackTop
<1>3. /\ own' \in [Chains -> Seq(Holder)] /\ Len(own'[c]) = top - 1
      /\ \A i \in 1..(top - 1) : i \in 1..top /\ own'[c][i] = own[c][i]
      /\ \A d \in Chains \ {c} : own'[d] = own[d]
  BY <1>1, StackTop
<1>4. \A i \in 1..(top - 1) : own[c][i] # k
  <2>1. \A i \in 1..(top - 1) : i \in 1..top /\ top \in 1..top /\ i # top
    BY <1>2
  <2>2. \A i, j \in 1..top : i # j => own[c][i].req # own[c][j].req
    BY DEF Inv, ClaimsOK
  <2> QED BY <2>1, <2>2
<1>5. HeldBy(c, pc, todo, own') = HeldBy(c, pc, todo, own) \ {k}
  <2>1. HeldBy(c, pc, todo, own') = {own'[c][i] : i \in 1..(top - 1)}
    BY <1>1, <1>3 DEF HeldBy
  <2>2. HeldBy(c, pc, todo, own) = {own[c][i] : i \in 1..top}
    BY <1>1 DEF HeldBy
  <2>3. \A i \in 1..top : i \in 1..(top - 1) \/ i = top
    BY <1>2
  <2> HIDE DEF top
  <2> QED BY <2>1, <2>2, <2>3, <1>3, <1>4
<1>6. k \in HeldBy(c, pc, todo, own) /\ k.chain = c
  <2>1. top \in 1..top
    BY <1>2
  <2>2. k \in HeldBy(c, pc, todo, own)
    BY <2>1 DEF HeldBy
  <2> QED BY <2>2 DEF TableOK, OwnersOK
<1> HIDE DEF k, top
<1>7. \A d \in Chains : /\ HeldBy(d, pc, todo, own') = HeldBy(d, pc, todo, own) \ {k}
                        /\ \A h \in HeldBy(d, pc, todo, own) : h.chain = d
  <2>1. \A d \in Chains : \A h \in HeldBy(d, pc, todo, own) : h.chain = d
    BY DEF TableOK, OwnersOK
  <2>2. \A d \in Chains \ {c} : HeldBy(d, pc, todo, own') = HeldBy(d, pc, todo, own)
    BY <1>3 DEF HeldBy
  <2>3. \A d \in Chains \ {c} : k \notin HeldBy(d, pc, todo, own)
    BY <1>6, <2>1
  <2> QED BY <1>5, <2>1, <2>2, <2>3
<1>8. HeldOf(pc, todo, own') = HeldClaims \ {k} /\ k \in HeldClaims
  <2>1. ASSUME NEW x PROVE x \in HeldOf(pc, todo, own') <=> x \in HeldClaims /\ x # k
    <3>1. x \in HeldOf(pc, todo, own') <=> \E d \in Chains : x \in HeldBy(d, pc, todo, own')
      BY InHeldOf
    <3>2. x \in HeldClaims <=> \E d \in Chains : x \in HeldBy(d, pc, todo, own)
      BY InHeldOf, TableMapping
    <3> QED BY <3>1, <3>2, <1>7
  <2>2. k \in HeldClaims
    BY <1>6, InHeldOf, TableMapping
  <2> QED BY <2>1, <2>2
<1>9. OwnersOK(pc, todo, own')
  BY <1>7 DEF OwnersOK
<1>10. active \ {k.req} \subseteq {h.req : h \in HeldClaims \ {k}}
  BY DEF TableOK
<1>11. /\ \E G \in SUBSET QueuedOf(queues) :
            /\ HeldOf(pc', todo, own') = HeldOf(pc, todo, own') \union G
            /\ QueuedOf(queues') = QueuedOf(queues) \ G
            /\ active' = (active \ {k.req}) \union {w.req : w \in G}
       /\ OwnersOK(pc', todo, own')
       /\ \A d \in Chains : pc'[d] = pc[d] \/ pc'[d] = "granted"
       /\ NoLostGrant'
  <2>1. /\ QueuesOK(queues, pc, todo) /\ ahead \in SUBSET Domains
        /\ active \ {k.req} \in SUBSET LockRequest
        /\ pc \in [Chains -> PC] /\ todo \in [Chains -> Seq(LockRequest)]
    BY Types DEF Inv
  <2>2. pump(queues, ahead, active \ {k.req}, pc)
    BY <1>1
  <2> QED BY <1>3, <1>9, <2>1, <2>2, PumpGrants
<1>12. PICK G \in SUBSET QueuedClaims :
         /\ HeldClaims' = (HeldClaims \ {k}) \union G
         /\ QueuedClaims' = QueuedClaims \ G
         /\ active' = (active \ {k.req}) \union {w.req : w \in G}
  BY <1>1, <1>8, <1>11, TableMapping, TableMappingNext
<1>13. active' \subseteq {h.req : h \in HeldClaims'}
  BY <1>10, <1>12
<1>14. NoSelfWait'
  <2> SUFFICES ASSUME NEW d \in Chains, pc'[d] = "waiting"
               PROVE  \A h \in Held(d)' : ~locksConflict(h.req, Head(todo'[d]))
    BY DEF NoSelfWait
  <2>1. d # c /\ pc[d] = "waiting" /\ todo'[d] = todo[d]
    BY <1>1, <1>11
  <2>2. Held(d)' \subseteq Held(d)
    BY <1>1, <1>3, <2>1 DEF Held, OwnSet
  <2> QED BY <2>1, <2>2 DEF TableOK, NoSelfWait
<1>15. TableOK'
  BY <1>1, <1>11, <1>13, <1>14 DEF TableOK
<1> QED BY <1>8, <1>12, <1>15 DEF TableStep

\* Every step keeps the table in order and does to it what TableStep says.
LEMMA TableNext == Inv /\ TableOK /\ [Next]_vars => TableOK' /\ TableStep
<1> SUFFICES ASSUME Inv, TableOK, [Next]_vars PROVE TableOK' /\ TableStep
  OBVIOUS
<1>1. CASE UNCHANGED vars
  <2>1. HeldClaims' = HeldClaims /\ QueuedClaims' = QueuedClaims
    BY <1>1, TableMapping, TableMappingNext DEF vars
  <2>2. TableOK'
    BY <1>1, <2>1 DEF vars, TableOK, OwnersOK, NoLostGrant, NoSelfWait, Held, OwnSet, HeldBy
  <2> QED BY <2>1, <2>2 DEF TableStep
<1>2. ASSUME NEW c \in Chains, NEW S \in Calls, withLocks(c, S) PROVE TableOK' /\ TableStep
  BY <1>2, WithLocksTable
<1>3. ASSUME NEW c \in Chains, Resume(c) PROVE TableOK' /\ TableStep
  BY <1>3, ResumeTable
<1>4. ASSUME NEW c \in Chains, Finish(c) PROVE TableOK' /\ TableStep
  <2>1. /\ own' = own /\ queues' = queues /\ active' = active /\ ctx' = ctx /\ todo' = todo
        /\ pc[c] = "running" /\ pc' = [pc EXCEPT ![c] = "releasing"]
    BY <1>4 DEF Finish
  <2>2. /\ pc' \in [Chains -> PC] /\ pc'[c] = "releasing"
        /\ \A d \in Chains \ {c} : pc'[d] = pc[d]
    BY <2>1, Types DEF PC
  <2> QED BY <2>1, <2>2, SameTable DEF TableStep
<1>5. ASSUME NEW c \in Chains, Release(c) PROVE TableOK' /\ TableStep
  BY <1>5, ReleaseTable
<1>6. ASSUME NEW c \in Chains, Return(c) PROVE TableOK' /\ TableStep
  <2>1. /\ own' = own /\ queues' = queues /\ active' = active /\ ctx' = ctx
        /\ pc[c] = "releasing" /\ todo' = [todo EXCEPT ![c] = <<>>]
        /\ \E x \in {"idle", "running"} : pc' = [pc EXCEPT ![c] = x]
    BY <1>6 DEF Return
  <2>2. /\ pc' \in [Chains -> PC] /\ pc'[c] \in {"idle", "running"}
        /\ \A d \in Chains \ {c} : pc'[d] = pc[d] /\ todo'[d] = todo[d]
    BY <2>1, Types DEF PC
  <2> QED BY <2>1, <2>2, SameTable DEF TableStep
<1>7. ASSUME NEW c \in Chains, NEW d \in Chains \ {c}, Fork(c, d) PROVE TableOK' /\ TableStep
  <2>1. /\ own' = own /\ queues' = queues /\ active' = active /\ pc' = pc /\ todo' = todo
        /\ pc[c] = "running" /\ pc[d] = "idle"
        /\ ctx' = [ctx EXCEPT ![d] = Held(c)]
    BY <1>7 DEF Fork
  <2>2. /\ pc' \in [Chains -> PC]
        /\ \A e \in Chains : pc'[e] = "waiting" => ctx'[e] = ctx[e]
    BY <2>1, Types
  <2> QED BY <2>1, <2>2, SameTable DEF TableStep
<1> QED BY <1>1, <1>2, <1>3, <1>4, <1>5, <1>6, <1>7 DEF Next

\* Initially nothing is held and nobody waits.
LEMMA TableInit == Init => TableOK /\ Table!Init
<1> SUFFICES ASSUME Init PROVE TableOK /\ Table!Init
  OBVIOUS
<1>1. HeldClaims = {} /\ QueuedClaims = {}
  BY DEF Init, HeldClaims, QueuedClaims, OwnSet
<1>2. OwnersOK(pc, todo, own)
  BY DEF Init, OwnersOK, HeldBy
<1>3. NoLostGrant /\ NoSelfWait /\ active = {}
  BY DEF Init, NoLostGrant, NoSelfWait
<1> QED BY <1>1, <1>2, <1>3 DEF TableOK, Table!Init

\* The registry's table stays in order.
THEOREM TableInvariant == Spec => []TableOK
BY LockInvariant, TableInit, TableNext, PTL DEF Spec

\* No lock leaks: what the registry counts as held is exactly what chains
\* hold or are about to resume with.
THEOREM LocksDoNotLeak == Spec => []ActiveIsOwned
<1>1. Inv /\ TableOK => ActiveIsOwned
  <2> SUFFICES ASSUME Inv, TableOK PROVE ActiveIsOwned
    OBVIOUS
  <2> DEFINE O == {h.req : h \in UNION {OwnSet(c) : c \in Chains}}
             P == {Head(todo[c]) : c \in {d \in Chains : pc[d] = "granted"}}
  <2>1. \A h \in HeldClaims : h.req \in O \/ h.req \in P
    <3> TAKE h \in HeldClaims
    <3>1. CASE h \in UNION {OwnSet(c) : c \in Chains}
      BY <3>1
    <3>2. CASE \E c \in Chains : pc[c] = "granted" /\ h = [req |-> Head(todo[c]), chain |-> c]
      BY <3>2
    <3> QED BY <3>1, <3>2 DEF HeldClaims
  <2>2. active \subseteq O \union P
    BY <2>1 DEF TableOK
  <2>3. O \subseteq active
    <3>1. \A c \in Chains : \A h \in OwnSet(c) : h.req \in Claims(c, pc, todo, own)
      BY DEF OwnSet, Claims
    <3> QED BY <3>1 DEF Inv, ActiveOK
  <2>4. P \subseteq active
    <3>1. \A c \in Chains : pc[c] = "granted" => Head(todo[c]) \in Claims(c, pc, todo, own)
      BY DEF Claims
    <3> QED BY <3>1 DEF Inv, ActiveOK
  <2>5. active = O \union P
    BY <2>2, <2>3, <2>4
  <2> QED BY <2>5 DEF ActiveIsOwned
<1> QED BY <1>1, LockInvariant, TableInvariant, PTL

\* No grant is lost: a queue has a waiter only while a held lock keeps its
\* head out, whichever releases and acquisitions pump ran for.
THEOREM GrantsAreNotLost == Spec => []NoLostGrant
<1>1. TableOK => NoLostGrant
  BY DEF TableOK
<1> QED BY <1>1, TableInvariant, PTL

\* No chain waits for a lock that its own context holds, though contexts are
\* inherited by forks and shrink when other chains release.
THEOREM ChainsDoNotBlockThemselves == Spec => []NoSelfWait
<1>1. TableOK => NoSelfWait
  BY DEF TableOK
<1> QED BY <1>1, TableInvariant, PTL

\* The registry, with its queues, nesting, forks and pumps, implements the
\* lock table: a step is an Ask, a Free, or leaves the table alone.
THEOREM RegistryImplementsTable == Spec => ImplementsLockTable
<1>1. Inv /\ TableOK /\ Inv' /\ TableOK' /\ [Next]_vars =>
        [Table!Ask \/ Table!Free]_<<HeldClaims, QueuedClaims>>
  <2> SUFFICES ASSUME Inv, TableOK, Inv', TableOK', [Next]_vars
               PROVE  [Table!Ask \/ Table!Free]_<<HeldClaims, QueuedClaims>>
    OBVIOUS
  <2>1. TableStep
    BY TableNext
  <2>2. CASE HeldClaims' = HeldClaims /\ QueuedClaims' = QueuedClaims
    BY <2>2
  <2>3. ASSUME NEW k \in Holder \ (HeldClaims \union QueuedClaims),
               NEW G \in SUBSET (QueuedClaims \union {k}),
               HeldClaims' = HeldClaims \union G,
               QueuedClaims' = (QueuedClaims \union {k}) \ G
        PROVE  Table!Ask
    <3>1. Table!Settle(QueuedClaims \union {k}, HeldClaims)
      BY <2>3, SettleStep
    <3> QED BY <3>1 DEF Table!Ask
  <2>4. ASSUME NEW k \in HeldClaims, NEW G \in SUBSET QueuedClaims,
               HeldClaims' = (HeldClaims \ {k}) \union G,
               QueuedClaims' = QueuedClaims \ G
        PROVE  Table!Free
    <3>1. Table!Settle(QueuedClaims, HeldClaims \ {k})
      BY <2>4, SettleStep
    <3> QED BY <3>1 DEF Table!Free
  <2> QED BY <2>1, <2>2, <2>3, <2>4 DEF TableStep
<1> QED BY <1>1, LockInvariant, TableInvariant, TableInit, PTL DEF Spec, ImplementsLockTable, Table!Spec
=============================================================================
