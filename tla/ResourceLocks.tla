--------------------------- MODULE ResourceLocks ---------------------------
(***************************************************************************)
(* The per-agent resource lock registry, packages/core/src/resource-locks. *)
(* Call chains (AsyncLocalStorage contexts) take lists of locks with       *)
(* withLocks, run a critical section and release in reverse order.  Each   *)
(* JavaScript turn, from one await to the next, is one action.             *)
(*                                                                         *)
(* A lock request is a pair <<domain, sub>>.  Domain 0 is the global       *)
(* domain '*', sub 0 is "no sub key".  With these numbers the order of the *)
(* strings lockKey(r) ('*' before every name, "fs" before "fs\0x") is the  *)
(* lexicographic order of the pairs.                                       *)
(***************************************************************************)
EXTENDS Naturals, Sequences, FiniteSets

CONSTANTS Chains,      \* call chains that may use the registry
          LockRequest, \* the lock requests tools make
          Calls,       \* the request sets withLocks is called with
          MaxDepth     \* bound: withLocks calls nested in one chain

GLOBAL_LOCK_DOMAIN == 0
NoSub == 0

ASSUME RequestAssumption ==
  /\ IsFiniteSet(Chains)
  /\ LockRequest \subseteq Nat \X Nat
  /\ Calls \subseteq SUBSET LockRequest
  /\ \A S \in Calls : IsFiniteSet(S) /\ S # {}
  /\ MaxDepth \in Nat

Domain(r) == r[1]
Sub(r) == r[2]
Domains == {Domain(r) : r \in LockRequest} \union {GLOBAL_LOCK_DOMAIN}

locksConflict(a, b) ==
  \/ Domain(a) = GLOBAL_LOCK_DOMAIN
  \/ Domain(b) = GLOBAL_LOCK_DOMAIN
  \/ /\ Domain(a) = Domain(b)
     /\ Sub(a) = NoSub \/ Sub(b) = NoSub \/ Sub(a) = Sub(b)

lockKeyLess(a, b) ==
  Domain(a) < Domain(b) \/ (Domain(a) = Domain(b) /\ Sub(a) < Sub(b))

VARIABLES queues, \* domain -> FIFO of waiters [req, chain]
          ahead,  \* the domains whose key precedes '*' in the Map `queues`
          active, \* the granted requests
          pc,     \* idle, waiting, granted, running or releasing
          todo,   \* what is left of the request list of the current call
          own,    \* stack of the locks the chain holds, as holders
          ctx,    \* holders inherited from the chain that forked this one
          frames  \* per open withLocks call, the height of `own` at its start

vars == <<queues, ahead, active, pc, todo, own, ctx, frames>>

(***************************************************************************)
(* A HeldLock object is identified by its request and the chain that       *)
(* created it: re-entrancy keeps a chain from holding a request twice.     *)
(* `own` and `ctx` keep the objects whose flag `released` is false; the    *)
(* object is shared, so a release removes it from every context.           *)
(***************************************************************************)
Holder == [req : LockRequest, chain : Chains]

OwnSet(c) == {own[c][i] : i \in 1..Len(own[c])}
Held(c) == OwnSet(c) \union ctx[c]

Init ==
  /\ queues = [d \in Domains |-> <<>>]
  /\ ahead = {}
  /\ active = {}
  /\ pc = [c \in Chains |-> "idle"]
  /\ todo = [c \in Chains |-> <<>>]
  /\ own = [c \in Chains |-> <<>>]
  /\ ctx = [c \in Chains |-> {}]
  /\ frames = [c \in Chains |-> <<>>]

-----------------------------------------------------------------------------
(***************************************************************************)
(* pump(), run on the queues q, the domains h whose key precedes '*' in    *)
(* the Map, the held requests a and the chain states p.  The loop grants   *)
(* queue heads that conflict with nothing held until no head can be        *)
(* granted: n[d] heads of domain d.  Only '*' conflicts across domains, so *)
(* the iteration order of the Map matters in one case: when nothing is     *)
(* held, '*' wins if its key comes first and loses otherwise.  A queue     *)
(* left empty is deleted from the Map, so its key goes to the end later.   *)
(***************************************************************************)
Granted(q, n) == UNION {{q[d][i] : i \in 1..n[d]} : d \in Domains}
Remaining(q, n) == [d \in Domains |-> SubSeq(q[d], n[d] + 1, Len(q[d]))]
StillAhead(q, h) ==
  IF q[GLOBAL_LOCK_DOMAIN] = <<>> THEN {} ELSE {d \in h : q[d] # <<>>}
Wake(p, G) == [c \in Chains |-> IF \E w \in G : w.chain = c THEN "granted" ELSE p[c]]

\* Mutant of pump: a pass checks the heads against the locks held when it
\* began, not against those it has just granted.
pumpStaleHeld(q, h, a, p) ==
  LET n == [d \in Domains |->
              IF q[d] # <<>> /\ \A r \in a : ~locksConflict(r, Head(q[d]).req)
              THEN 1 ELSE 0]
  IN /\ queues' = Remaining(q, n)
     /\ ahead' = StillAhead(Remaining(q, n), h)
     /\ active' = a \union {w.req : w \in Granted(q, n)}
     /\ pc' = Wake(p, Granted(q, n))

pump(q, h, a, p) ==
  \E n \in [Domains -> 0..Cardinality(Chains)] :
    LET G == Granted(q, n)
        held == a \union {w.req : w \in G}
    IN /\ \A d \in Domains : n[d] <= Len(q[d])
       /\ \A w \in G : \A r \in a : ~locksConflict(r, w.req)
       /\ \A v, w \in G : v # w => ~locksConflict(v.req, w.req)
       /\ \A d \in Domains : n[d] < Len(q[d]) =>
            \E r \in held : locksConflict(r, q[d][n[d] + 1].req)
       /\ a = {} /\ q[GLOBAL_LOCK_DOMAIN] # <<>> =>
            (n[GLOBAL_LOCK_DOMAIN] > 0 <=> h = {})
       /\ queues' = Remaining(q, n)
       /\ ahead' = StillAhead(Remaining(q, n), h)
       /\ active' = held
       /\ pc' = Wake(p, G)

\* The Map keys before '*' once domain d has a waiter: a new '*' key goes last.
KeysBefore(d) ==
  IF d = GLOBAL_LOCK_DOMAIN /\ queues[d] = <<>>
  THEN {e \in Domains : queues[e] # <<>>} ELSE ahead

\* Mutant of acquireOne: the newest waiter goes to the front.
acquireOneLifo(c, r) ==
  LET d == Domain(r)
  IN pump([queues EXCEPT ![d] = <<[req |-> r, chain |-> c]>> \o @],
          KeysBefore(d), active, [pc EXCEPT ![c] = "waiting"])

\* acquireOne: append a waiter to the queue of its domain, then pump.
acquireOne(c, r) ==
  LET d == Domain(r)
  IN pump([queues EXCEPT ![d] = Append(@, [req |-> r, chain |-> c])],
          KeysBefore(d), active, [pc EXCEPT ![c] = "waiting"])

\* Mutants of releaseOne: no pump after the release; nothing removed.
releaseOneNoPump(r, p) ==
  active' = active \ {r} /\ pc' = p /\ UNCHANGED <<queues, ahead>>
releaseOneKeeps(r, p) == pump(queues, ahead, active, p)

\* releaseOne: drop the request from the held ones, then pump.
releaseOne(r, p) == pump(queues, ahead, active \ {r}, p)

\* Mutant of acquireChain: no detection of nesting conflicts.
acquireChainNoCheck(c, s, H) ==
  \E i \in 1..(Len(s) + 1) :
    /\ \A j \in 1..(i - 1) : \E h \in H : h.req = s[j]
    /\ todo' = [todo EXCEPT ![c] = SubSeq(s, i, Len(s))]
    /\ \/ /\ i > Len(s)
          /\ pc' = [pc EXCEPT ![c] = "running"]
          /\ UNCHANGED <<queues, ahead, active>>
       \/ /\ i <= Len(s)
          /\ \A h \in H : h.req # s[i]
          /\ acquireOne(c, s[i])

(***************************************************************************)
(* acquireChain from request list s on, chain c holding H: requests the    *)
(* chain already holds are skipped (re-entrancy); a request in conflict    *)
(* with a held lock throws LockNestingConflictError, which unwinds this    *)
(* call; any other request is queued.  With no request left fn starts.     *)
(***************************************************************************)
acquireChain(c, s, H) ==
  \E i \in 1..(Len(s) + 1) :
    /\ \A j \in 1..(i - 1) : \E h \in H : h.req = s[j]
    /\ todo' = [todo EXCEPT ![c] = SubSeq(s, i, Len(s))]
    /\ \/ /\ i > Len(s)
          /\ pc' = [pc EXCEPT ![c] = "running"]
          /\ UNCHANGED <<queues, ahead, active>>
       \/ /\ i <= Len(s)
          /\ \A h \in H : h.req # s[i]
          /\ \E h \in H : locksConflict(h.req, s[i])
          /\ pc' = [pc EXCEPT ![c] = "releasing"]
          /\ UNCHANGED <<queues, ahead, active>>
       \/ /\ i <= Len(s)
          /\ \A h \in H : ~locksConflict(h.req, s[i])
          /\ acquireOne(c, s[i])

\* withLocks(S, fn): the requests without duplicates, sorted by lockKey.  A
\* top-level call starts a chain; a call inside fn nests.
withLocks(c, S) ==
  /\ pc[c] \in {"idle", "running"}
  /\ Len(frames[c]) < MaxDepth
  /\ frames' = [frames EXCEPT ![c] = Append(@, Len(own[c]))]
  /\ \E s \in [1..Cardinality(S) -> S] :
       /\ \A i, j \in 1..Cardinality(S) : i < j => lockKeyLess(s[i], s[j])
       /\ acquireChain(c, s, Held(c))
  /\ UNCHANGED <<own, ctx>>

\* The awaited acquireOne returns: a new holder is put on the chain's stack and
\* the chain goes on with the rest of its list.
Resume(c) ==
  LET h == [req |-> Head(todo[c]), chain |-> c]
  IN /\ pc[c] = "granted"
     /\ own' = [own EXCEPT ![c] = Append(@, h)]
     /\ acquireChain(c, Tail(todo[c]), Held(c) \union {h})
     /\ UNCHANGED <<ctx, frames>>

\* fn returns or throws.
Finish(c) ==
  /\ pc[c] = "running"
  /\ frames[c] # <<>>
  /\ pc' = [pc EXCEPT ![c] = "releasing"]
  /\ UNCHANGED <<queues, ahead, active, todo, own, ctx, frames>>

\* The finally block of the innermost lock of the current call: releaseOne,
\* and the holder is marked released.
Release(c) ==
  LET top == Len(own[c])
  IN /\ pc[c] = "releasing"
     /\ top > frames[c][Len(frames[c])]
     /\ own' = [own EXCEPT ![c] = SubSeq(@, 1, top - 1)]
     /\ ctx' = [d \in Chains |-> ctx[d] \ {own[c][top]}]
     /\ releaseOne(own[c][top].req, pc)
     /\ UNCHANGED <<todo, frames>>

\* Mutant of Return: every return ends the chain, nested calls included.
ReturnEndsChain(c) ==
  LET f == Len(frames[c])
  IN /\ pc[c] = "releasing"
     /\ frames[c][f] = Len(own[c])
     /\ frames' = [frames EXCEPT ![c] = SubSeq(@, 1, f - 1)]
     /\ pc' = [pc EXCEPT ![c] = "idle"]
     /\ todo' = [todo EXCEPT ![c] = <<>>]
     /\ UNCHANGED <<queues, ahead, active, own, ctx>>

\* The call is unwound: its caller, an outer fn or nobody, goes on.
Return(c) ==
  LET f == Len(frames[c])
  IN /\ pc[c] = "releasing"
     /\ frames[c][f] = Len(own[c])
     /\ frames' = [frames EXCEPT ![c] = SubSeq(@, 1, f - 1)]
     /\ pc' = [pc EXCEPT ![c] = IF f = 1 THEN "idle" ELSE "running"]
     /\ todo' = [todo EXCEPT ![c] = <<>>]
     /\ UNCHANGED <<queues, ahead, active, own, ctx>>

\* fn of chain c starts an asynchronous resource d (a parallel tool call, a
\* process listener, a timer), which captures the lock context of c.
Fork(c, d) ==
  /\ pc[c] = "running"
  /\ Len(frames[c]) > 0
  /\ pc[d] = "idle"
  /\ ctx[d] = {}
  /\ ctx' = [ctx EXCEPT ![d] = Held(c)]
  /\ UNCHANGED <<queues, ahead, active, pc, todo, own, frames>>

Next ==
  \E c \in Chains :
    \/ \E S \in Calls : withLocks(c, S)
    \/ Resume(c)
    \/ Finish(c)
    \/ Release(c)
    \/ Return(c)
    \/ \E d \in Chains \ {c} : Fork(c, d)

Spec == Init /\ [][Next]_vars

(***************************************************************************)
(* Continuations of resolved promises run, and fn settles: every tool call *)
(* has its own time limit.  Nothing makes a chain call withLocks or fork.  *)
(***************************************************************************)
Fairness ==
  \A c \in Chains :
    /\ WF_vars(Resume(c))
    /\ WF_vars(Finish(c))
    /\ WF_vars(Release(c))
    /\ WF_vars(Return(c))

FairSpec == Spec /\ Fairness

-----------------------------------------------------------------------------
\* Type correctness of the registry and of the call chains; a chain is idle
\* exactly when it has no open withLocks call.
TypeOK ==
  /\ queues \in [Domains -> Seq([req : LockRequest, chain : Chains])]
  /\ ahead \subseteq Domains
  /\ active \subseteq LockRequest
  /\ pc \in [Chains -> {"idle", "waiting", "granted", "running", "releasing"}]
  /\ todo \in [Chains -> Seq(LockRequest)]
  /\ own \in [Chains -> Seq(Holder)]
  /\ ctx \in [Chains -> SUBSET Holder]
  /\ frames \in [Chains -> Seq(Nat)]
  /\ \A c \in Chains : pc[c] = "idle" <=> frames[c] = <<>>

\* The locks that two chains have taken and not yet given back never conflict,
\* whatever the chains nest, fork or abandon: what withLocks promises to the
\* write tools of concurrent workers.  A forked call that a lock of its parent
\* lets in re-entrantly takes no lock and is not counted: it relies on its
\* parent, and goes on unprotected when the parent gives the lock back first.
MutualExclusion ==
  \A c, d \in Chains : c # d =>
    \A g \in OwnSet(c), h \in OwnSet(d) : ~locksConflict(g.req, h.req)

\* No lock leaks: a request is counted as held exactly when some chain has it
\* on its stack or is about to resume with it.
ActiveIsOwned ==
  active = {h.req : h \in UNION {OwnSet(c) : c \in Chains}}
             \union {Head(todo[c]) : c \in {d \in Chains : pc[d] = "granted"}}

\* A chain never queues for a lock that conflicts with one its own context
\* still holds (it would wait for itself): acquireChain fails fast instead.
NoSelfWait ==
  \A c \in Chains : pc[c] = "waiting" =>
    \A h \in Held(c) : ~locksConflict(h.req, Head(todo[c]))

\* No grant is lost: a waiter at the head of its queue is there because of a
\* lock that is held now, never because a release forgot to pump.
NoLostGrant ==
  \A d \in Domains : queues[d] # <<>> =>
    \E r \in active : locksConflict(r, Head(queues[d]).req)

\* The claims of LockTable: a lock is held from its grant on, though the chain
\* resumes in a later turn.
HeldClaims ==
  (UNION {OwnSet(c) : c \in Chains})
    \union {[req |-> Head(todo[c]), chain |-> c] : c \in {d \in Chains : pc[d] = "granted"}}
QueuedClaims == UNION {{queues[d][i] : i \in 1..Len(queues[d])} : d \in Domains}

Table == INSTANCE LockTable WITH
  Claims <- Holder,
  Conflicts <- {p \in Holder \X Holder : locksConflict(p[1].req, p[2].req)},
  held <- HeldClaims,
  wanted <- QueuedClaims

\* The registry implements the lock table: whatever chains nest, fork or
\* abandon, every turn grants only what was asked for, takes back one lock at
\* most, loses no waiter, and leaves neither a conflict nor an idle table.
ImplementsLockTable == Table!Spec

\* Nobody asks for or holds '*', and nobody is in a call inside another call.
Orderly ==
  /\ queues[GLOBAL_LOCK_DOMAIN] = <<>>
  /\ \A r \in active : Domain(r) # GLOBAL_LOCK_DOMAIN
  /\ \A c \in Chains : Len(frames[c]) <= 1

\* "Within a domain strictly first come, first served, no starvation" (header,
\* 3): a waiting chain gets to run, however often the others come back.  The
\* words hold of the named domains alone, so the property is about behaviours
\* that from some point on take no '*' (chains that take '*' in turn, as calls
\* of shell_execute do, keep every other head waiting; that '*' itself may be
\* put off is a known trade-off of the header) and nest no calls (calls that
\* nest in opposite orders wait for each other).
NoStarvation ==
  <>[]Orderly => \A c \in Chains : pc[c] = "waiting" ~> pc[c] = "running"
=============================================================================
