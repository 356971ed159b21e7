----------------------------- MODULE LockProofs -----------------------------
(***************************************************************************)
(* Proofs about LockServer, for any sets of keys and requesters, and about *)
(* the two-phase-locking store on top of it.  A call of getLocks or        *)
(* dropLocks touches many locks in one step; what it does to each of them  *)
(* follows from the lemmas about a single lock.                            *)
(***************************************************************************)
EXTENDS LockStore, SequenceTheorems, TLAPS

\* Most leaves are about sequences and numbers; the first-order ones say Zenon.
USE SMTT(30)

\* QueueConsistent, for one lock.
QueueOK(l) ==
  /\ \A r \in Requester : l.waiters[r] # "none"
                            <=> \E i \in 1..Len(l.waitQ) : l.waitQ[i] = r
  /\ \A i, j \in 1..Len(l.waitQ) : l.waitQ[i] = l.waitQ[j] => i = j

(***************************************************************************)
(* The three operations on a queue keep it consistent and touch nothing    *)
(* else: the pruning loop, waitForLock, and the head leaving.              *)
(***************************************************************************)
LEMMA PruneLemma ==
  ASSUME NEW l \in Lock, NEW p \in Pruned(l), QueueOK(l)
  PROVE  p \in Lock /\ p.state = l.state /\ p.holders = l.holders /\ QueueOK(p)
<1> PICK old \in 0..Len(l.waitQ) : p = Prune(l, old)
  BY DEF Pruned
<1> DEFINE q == SubSeq(l.waitQ, old + 1, Len(l.waitQ))
<1>1. l.waitQ \in Seq(Requester) /\ Len(l.waitQ) \in Nat
  BY DEF Lock
<1>a. old \in Nat /\ old <= Len(l.waitQ)
  BY <1>1
<1>2. /\ q \in Seq(Requester)
      /\ Len(q) = Len(l.waitQ) - old
      /\ \A i \in 1..Len(q) : q[i] = l.waitQ[i + old]
  <2> DEFINE a == old + 1
             b == Len(l.waitQ)
  <2>1. \A i \in a..b : l.waitQ[i] \in Requester
    BY <1>1, <1>a
  <2>2. a \in Int /\ b \in Int
    BY <1>1, <1>a
  <2>3. /\ q \in Seq(Requester)
        /\ Len(q) = IF a <= b THEN b - a + 1 ELSE 0
        /\ \A i \in 1..(b - a + 1) : q[i] = l.waitQ[a + i - 1]
    <3>1. SubSeq(l.waitQ, a, b) = q
      OBVIOUS
    <3> HIDE DEF a, b, q
    <3>2. /\ SubSeq(l.waitQ, a, b) \in Seq(Requester)
          /\ Len(SubSeq(l.waitQ, a, b)) = IF a <= b THEN b - a + 1 ELSE 0
          /\ \A i \in 1..(b - a + 1) :
               SubSeq(l.waitQ, a, b)[i] = l.waitQ[a + i - 1]
      BY <2>1, <2>2, SubSeqProperties
    <3> QED BY <3>1, <3>2
  <2> HIDE DEF q
  <2>4. Len(q) = b - old
    BY <1>1, <1>a, <2>3
  <2>5. ASSUME NEW i \in 1..Len(q) PROVE q[i] = l.waitQ[i + old]
    <3>1. i \in 1..(b - a + 1) /\ a + i - 1 = i + old
      BY <1>1, <1>a, <2>4
    <3> QED BY <2>3, <3>1, ZenonT(30)
  <2> QED BY <2>3, <2>4, <2>5
<1>3. p.waitQ = q /\ p.state = l.state /\ p.holders = l.holders
  BY DEF Lock, Prune
<1>4. /\ p.waiters \in [Requester -> Mode \cup {"none"}]
      /\ \A r \in Requester : p.waiters[r] =
            IF \E i \in 1..old : l.waitQ[i] = r THEN "none" ELSE l.waiters[r]
  BY DEF Lock, Prune
<1>5. p \in Lock
  BY <1>2, <1>3, <1>4, ZenonT(30) DEF Lock, Prune
<1> HIDE DEF q
<1>b. Len(q) = Len(l.waitQ) - old
  BY <1>2
<1>c. ASSUME NEW i \in 1..Len(q)
      PROVE  i + old \in 1..Len(l.waitQ) /\ q[i] = l.waitQ[i + old]
  <2>1. i + old \in 1..Len(l.waitQ)
    BY <1>1, <1>a, <1>b
  <2> QED BY <1>2, <2>1, ZenonT(30)
<1>6. ASSUME NEW i \in 1..Len(q), NEW j \in 1..Len(q), q[i] = q[j]
      PROVE  i = j
  <2>1. /\ i + old \in 1..Len(l.waitQ) /\ j + old \in 1..Len(l.waitQ)
        /\ l.waitQ[i + old] = l.waitQ[j + old]
    BY <1>6, <1>c, ZenonT(30)
  <2>2. i + old = j + old
    BY <2>1 DEF QueueOK
  <2> QED BY <1>1, <1>a, <1>b, <2>2
<1>7. ASSUME NEW r \in Requester
      PROVE  p.waiters[r] # "none" <=> \E i \in 1..Len(q) : q[i] = r
  <2>1. ASSUME p.waiters[r] # "none" PROVE \E i \in 1..Len(q) : q[i] = r
    <3>1. l.waiters[r] # "none" /\ ~ \E i \in 1..old : l.waitQ[i] = r
      BY <1>4, <2>1
    <3>2. PICK k \in 1..Len(l.waitQ) : l.waitQ[k] = r
      BY <3>1 DEF QueueOK
    <3>3. k - old \in 1..Len(q) /\ q[k - old] = r
      <4>1. ~(k \in 1..old)
        BY <3>1, <3>2, ZenonT(30)
      <4>2. k - old \in 1..Len(q) /\ k - old + old = k
        BY <1>1, <1>a, <1>b, <4>1
      <4> QED BY <1>c, <3>2, <4>2
    <3> QED BY <3>3
  <2>2. ASSUME NEW i \in 1..Len(q), q[i] = r PROVE p.waiters[r] # "none"
    <3>1. i + old \in 1..Len(l.waitQ) /\ l.waitQ[i + old] = r
      BY <1>c, <2>2
    <3>2. l.waiters[r] # "none"
      BY <3>1 DEF QueueOK
    <3>3. ~ \E j \in 1..old : l.waitQ[j] = r
      <4> SUFFICES ASSUME NEW j \in 1..old, l.waitQ[j] = r PROVE FALSE
        OBVIOUS
      <4>1. j \in 1..Len(l.waitQ) /\ j # i + old
        BY <1>1, <1>a, <1>b
      <4> QED BY <3>1, <4>1 DEF QueueOK
    <3> QED BY <1>4, <3>2, <3>3
  <2> QED BY <2>1, <2>2
<1> QED
  BY <1>3, <1>5, <1>6, <1>7 DEF QueueOK

\* waitForLock queues the requester at most once: both structures stay in
\* step, the lock itself is not touched.
LEMMA WaitLemma ==
  ASSUME NEW l \in Lock, NEW r \in Requester, NEW m \in Mode, QueueOK(l)
  PROVE  /\ waitForLock(l, r, m) \in Lock
         /\ waitForLock(l, r, m).state = l.state
         /\ waitForLock(l, r, m).holders = l.holders
         /\ QueueOK(waitForLock(l, r, m))
<1> DEFINE w == waitForLock(l, r, m)
<1>1. CASE l.waiters[r] # "none"
  BY <1>1 DEF waitForLock
<1>2. CASE l.waiters[r] = "none"
  <2>1. l.waitQ \in Seq(Requester) /\ Len(l.waitQ) \in Nat
    BY DEF Lock
  <2>2. /\ w.waitQ = Append(l.waitQ, r)
        /\ w.waiters = [l.waiters EXCEPT ![r] = m]
        /\ w.state = l.state /\ w.holders = l.holders
        /\ w = [l EXCEPT !.waiters = w.waiters, !.waitQ = w.waitQ]
    BY <1>2 DEF waitForLock, Lock
  <2>a. /\ w.waitQ \in Seq(Requester)
        /\ w.waiters \in [Requester -> Mode \cup {"none"}]
    BY <2>1, <2>2 DEF Lock
  <2>b. w \in Lock
    BY <2>2, <2>a, ZenonT(30) DEF Lock
  <2>3. ~ \E i \in 1..Len(l.waitQ) : l.waitQ[i] = r
    BY <1>2 DEF QueueOK
  <2>4. /\ Len(w.waitQ) = Len(l.waitQ) + 1
        /\ \A i \in 1..Len(l.waitQ) : w.waitQ[i] = l.waitQ[i]
        /\ w.waitQ[Len(l.waitQ) + 1] = r
    BY <2>1, <2>2
  <2>5. /\ w.waiters[r] = m /\ m # "none"
        /\ \A s \in Requester : s # r => w.waiters[s] = l.waiters[s]
    BY <2>2 DEF Lock, Mode
  <2> HIDE DEF w
  <2>c. Len(w.waitQ) = Len(l.waitQ) + 1
    BY <2>4
  <2>6. \A i, j \in 1..Len(w.waitQ) : w.waitQ[i] = w.waitQ[j] => i = j
    <3> SUFFICES ASSUME NEW i \in 1..Len(w.waitQ), NEW j \in 1..Len(w.waitQ),
                        w.waitQ[i] = w.waitQ[j]
                 PROVE  i = j
      OBVIOUS
    <3>1. CASE i \in 1..Len(l.waitQ) /\ j \in 1..Len(l.waitQ)
      <4>1. l.waitQ[i] = l.waitQ[j]
        BY <2>4, <3>1
      <4> QED BY <3>1, <4>1 DEF QueueOK
    <3>2. ASSUME NEW k \in 1..Len(w.waitQ)
          PROVE  k \in 1..Len(l.waitQ) \/ k = Len(l.waitQ) + 1
      BY <2>1, <2>c
    <3>3. \A k \in 1..Len(l.waitQ) : w.waitQ[k] # w.waitQ[Len(l.waitQ) + 1]
      BY <2>3, <2>4, ZenonT(30)
    <3> QED BY <3>1, <3>2, <3>3, ZenonT(30)
  <2>7. ASSUME NEW s \in Requester
        PROVE  w.waiters[s] # "none"
                 <=> \E i \in 1..Len(w.waitQ) : w.waitQ[i] = s
    <3>1. CASE s = r
      BY <2>1, <2>4, <2>5, <3>1
    <3>2. CASE s # r
      <4>1. ASSUME NEW k \in 1..Len(l.waitQ), l.waitQ[k] = s
            PROVE  k \in 1..Len(w.waitQ) /\ w.waitQ[k] = s
        BY <2>1, <2>4, <4>1
      <4>2. ASSUME NEW k \in 1..Len(w.waitQ), w.waitQ[k] = s
            PROVE  k \in 1..Len(l.waitQ) /\ l.waitQ[k] = s
        <5>1. k # Len(l.waitQ) + 1
          BY <2>4, <3>2, <4>2
        <5>2. k \in 1..Len(l.waitQ)
          BY <2>1, <2>4, <5>1
        <5> QED BY <2>4, <4>2, <5>2
      <4>3. /\ w.waiters[s] = l.waiters[s]
            /\ l.waiters[s] # "none"
                 <=> \E i \in 1..Len(l.waitQ) : l.waitQ[i] = s
        BY <2>5, <3>2 DEF QueueOK
      <4>4. (\E i \in 1..Len(l.waitQ) : l.waitQ[i] = s)
              <=> (\E i \in 1..Len(w.waitQ) : w.waitQ[i] = s)
        BY <4>1, <4>2, ZenonT(30)
      <4> QED BY <4>3, <4>4
    <3> QED BY <3>1, <3>2
  <2>8. QueueOK(w)
    BY <2>6, <2>7 DEF QueueOK
  <2> QED BY <2>2, <2>b, <2>8 DEF w
<1> QED BY <1>1, <1>2

\* When tryAcquireLock answers true the head leaves both structures, and the
\* lock itself is not touched.
LEMMA DequeueLemma ==
  ASSUME NEW l \in Lock, NEW r \in Requester, QueueOK(l), isNext(l, r)
  PROVE  /\ Dequeue(l, r) \in Lock
         /\ Dequeue(l, r).state = l.state
         /\ Dequeue(l, r).holders = l.holders
         /\ QueueOK(Dequeue(l, r))
<1> DEFINE d == Dequeue(l, r)
<1>1. CASE l.waitQ = <<>>
  BY <1>1 DEF Dequeue
<1>2. CASE l.waitQ # <<>>
  <2>1. l.waitQ \in Seq(Requester) /\ Len(l.waitQ) \in Nat \ {0}
    BY <1>2 DEF Lock
  <2>2. /\ d.waitQ = Tail(l.waitQ)
        /\ d.waiters = [l.waiters EXCEPT ![r] = "none"]
        /\ d.state = l.state /\ d.holders = l.holders
        /\ d = [l EXCEPT !.waiters = d.waiters, !.waitQ = d.waitQ]
    BY <1>2, <2>1, ZenonT(30) DEF Dequeue, Lock
  <2>a. /\ d.waitQ \in Seq(Requester)
        /\ d.waiters \in [Requester -> Mode \cup {"none"}]
    BY <2>1, <2>2 DEF Lock
  <2>b. d \in Lock
    BY <2>2, <2>a, ZenonT(30) DEF Lock
  <2>3. l.waitQ[1] = r
    BY <1>2, <2>1 DEF isNext
  <2>4. /\ Len(d.waitQ) = Len(l.waitQ) - 1
        /\ \A i \in 1..Len(d.waitQ) : d.waitQ[i] = l.waitQ[i + 1]
    BY <2>1, <2>2
  <2>5. /\ d.waiters[r] = "none"
        /\ \A s \in Requester : s # r => d.waiters[s] = l.waiters[s]
    BY <2>2 DEF Lock
  <2> HIDE DEF d
  <2>c. Len(d.waitQ) = Len(l.waitQ) - 1
    BY <2>4
  <2>d. ASSUME NEW i \in 1..Len(d.waitQ)
        PROVE  i + 1 \in 1..Len(l.waitQ) /\ d.waitQ[i] = l.waitQ[i + 1]
    <3>1. i + 1 \in 1..Len(l.waitQ)
      BY <2>1, <2>c
    <3> QED BY <2>4, <3>1, ZenonT(30)
  <2>6. \A i, j \in 1..Len(d.waitQ) : d.waitQ[i] = d.waitQ[j] => i = j
    <3> SUFFICES ASSUME NEW i \in 1..Len(d.waitQ), NEW j \in 1..Len(d.waitQ),
                        d.waitQ[i] = d.waitQ[j]
                 PROVE  i = j
      OBVIOUS
    <3>1. /\ i + 1 \in 1..Len(l.waitQ) /\ j + 1 \in 1..Len(l.waitQ)
          /\ l.waitQ[i + 1] = l.waitQ[j + 1]
      BY <2>d, ZenonT(30)
    <3>2. i + 1 = j + 1
      BY <3>1 DEF QueueOK
    <3> QED BY <3>2
  <2>7. ASSUME NEW s \in Requester
        PROVE  d.waiters[s] # "none"
                 <=> \E i \in 1..Len(d.waitQ) : d.waitQ[i] = s
    <3>1. CASE s = r
      <4>1. ASSUME NEW i \in 1..Len(d.waitQ) PROVE d.waitQ[i] # r
        <5>1. /\ 1 \in 1..Len(l.waitQ) /\ i + 1 \in 1..Len(l.waitQ)
              /\ i + 1 # 1
          BY <2>1, <2>c
        <5> QED BY <2>3, <2>d, <5>1, ZenonT(30) DEF QueueOK
      <4> QED BY <2>5, <3>1, <4>1
    <3>2. CASE s # r
      <4>1. ASSUME NEW k \in 1..Len(l.waitQ), l.waitQ[k] = s
            PROVE  k - 1 \in 1..Len(d.waitQ) /\ d.waitQ[k - 1] = s
        <5>1. k # 1
          BY <2>3, <3>2, <4>1
        <5>2. k - 1 \in 1..Len(d.waitQ) /\ k - 1 + 1 = k
          BY <2>1, <2>c, <5>1
        <5>3. d.waitQ[k - 1] = l.waitQ[k - 1 + 1]
          BY <2>d, <5>2, ZenonT(30)
        <5> QED BY <4>1, <5>2, <5>3
      <4>2. ASSUME NEW k \in 1..Len(d.waitQ), d.waitQ[k] = s
            PROVE  k + 1 \in 1..Len(l.waitQ) /\ l.waitQ[k + 1] = s
        BY <2>d, <4>2
      <4>3. /\ d.waiters[s] = l.waiters[s]
            /\ l.waiters[s] # "none"
                 <=> \E i \in 1..Len(l.waitQ) : l.waitQ[i] = s
        BY <2>5, <3>2 DEF QueueOK
      <4>4. (\E i \in 1..Len(l.waitQ) : l.waitQ[i] = s)
              <=> (\E i \in 1..Len(d.waitQ) : d.waitQ[i] = s)
        BY <4>1, <4>2, ZenonT(30)
      <4> QED BY <4>3, <4>4
    <3> QED BY <3>1, <3>2
  <2>8. QueueOK(d)
    BY <2>6, <2>7 DEF QueueOK
  <2> QED BY <2>2, <2>b, <2>8 DEF d
<1> QED BY <1>1, <1>2

-----------------------------------------------------------------------------
\* HoldersMatchGrants, for one lock l and the promises g made about it.
MatchOK(l, g) ==
  /\ l.state = "UNLOCKED" => l.holders = {} /\ g = {}
  /\ l.state = "LOCKED_FOR_READ"
       => l.holders # {} /\ g = l.holders \X {"read"}
  /\ l.state = "LOCKED_FOR_WRITE"
       => \E h \in Requester : l.holders = {h} /\ g = {<<h, "write">>}
  /\ l.state = "LOCKED_FOR_READ_WRITE"
       => \E h \in Requester : l.holders = {h} /\ g = {h} \X Mode

LockOK(l, g) ==
  l \in Lock /\ g \in SUBSET (Requester \X Mode) /\ QueueOK(l) /\ MatchOK(l, g)

(***************************************************************************)
(* The inductive invariant: every lock is well formed, its queue is        *)
(* consistent, and it records what was promised.  HoldersMatchGrants is    *)
(* not inductive without the typing of the queue, whose head may become    *)
(* the next holder.                                                        *)
(***************************************************************************)
IInv == /\ locks = [x \in Key |-> locks[x]]
        /\ granted = [x \in Key |-> granted[x]]
        /\ \A x \in Key : LockOK(locks[x], granted[x])

\* The inductive invariant gives the three invariants the model checker checks.
LEMMA IInvImplies == IInv => TypeOK /\ HoldersMatchGrants /\ QueueConsistent
<1> SUFFICES ASSUME IInv PROVE TypeOK /\ HoldersMatchGrants /\ QueueConsistent
  OBVIOUS
<1>1. locks \in [Key -> Lock] /\ granted \in [Key -> SUBSET (Requester \X Mode)]
  BY DEF IInv, LockOK
<1>2. HoldersMatchGrants
  BY DEF IInv, LockOK, MatchOK, HoldersMatchGrants
<1>3. QueueConsistent
  BY DEF IInv, LockOK, QueueOK, QueueConsistent
<1> QED BY <1>1, <1>2, <1>3 DEF TypeOK

\* A step that leaves one lock and its promises in order keeps IInv.
LEMMA UpdateLemma ==
  ASSUME IInv, NEW x \in Key, NEW l, NEW g, LockOK(l, g),
         locks' = [locks EXCEPT ![x] = l],
         granted' = [granted EXCEPT ![x] = g]
  PROVE  IInv'
<1>1. \A y \in Key : /\ locks'[y] = IF y = x THEN l ELSE locks[y]
                     /\ granted'[y] = IF y = x THEN g ELSE granted[y]
  BY ZenonT(30) DEF IInv
<1>2. /\ locks' = [y \in Key |-> locks'[y]]
      /\ granted' = [y \in Key |-> granted'[y]]
  BY ZenonT(30) DEF IInv
<1> QED BY <1>1, <1>2 DEF IInv

\* A new lock is unlocked, with no holder and no queue.
LEMMA InitLemma == Init => IInv
<1> SUFFICES ASSUME Init PROVE IInv
  OBVIOUS
<1>1. NewLock \in Lock /\ QueueOK(NewLock)
  BY DEF NewLock, Lock, LockState, QueueOK
<1>2. LockOK(NewLock, {})
  BY <1>1 DEF NewLock, LockOK, MatchOK
<1> QED BY <1>2 DEF Init, IInv

(***************************************************************************)
(* Each call, on one lock: an answer leaves the lock in order, with the    *)
(* promise it makes.                                                       *)
(***************************************************************************)
\* The promises about a lock after the answer a to r.
After(g, r, mode, a) == IF a.ok THEN g \cup {<<r, mode>>} ELSE g

\* A refusal changes the queue alone, so the holders stay in order.
LEMMA RefuseLemma ==
  ASSUME NEW l, NEW g, LockOK(l, g), NEW r \in Requester, NEW mode \in Mode,
         NEW p, p \in Lock, QueueOK(p),
         p.state = l.state, p.holders = l.holders
  PROVE  LET a == Refused(p, r, mode) IN LockOK(a.lock, After(g, r, mode, a))
<1> DEFINE w == waitForLock(p, r, mode)
           a == Refused(p, r, mode)
<1>1. w \in Lock /\ w.state = l.state /\ w.holders = l.holders /\ QueueOK(w)
  BY WaitLemma
<1>2. a.lock = w /\ After(g, r, mode, a) = g
  BY DEF Refused, After
<1> HIDE DEF w, a
<1>3. LockOK(w, g)
  BY <1>1 DEF LockOK, MatchOK
<1> QED BY <1>2, <1>3 DEF a

\* A grant adds a promise.
LEMMA GrantLemma ==
  ASSUME NEW l, NEW g, LockOK(l, g), NEW r \in Requester, NEW mode \in Mode,
         NEW k, k \in Lock, QueueOK(k), MatchOK(k, g \cup {<<r, mode>>})
  PROVE  LET a == Granted(k) IN LockOK(a.lock, After(g, r, mode, a))
BY DEF Granted, After, LockOK

\* Taking an unlocked lock: the requester is next and becomes the holder, or
\* waits.
LEMMA UnlockedLemma ==
  ASSUME NEW l, NEW g, LockOK(l, g), NEW r \in Requester, NEW mode \in Mode,
         l.state = "UNLOCKED", NEW state,
         \/ mode = "read" /\ state = "LOCKED_FOR_READ"
         \/ mode = "write" /\ state = "LOCKED_FOR_WRITE",
         NEW a \in TakeUnlocked(l, r, mode, state)
  PROVE  LockOK(a.lock, After(g, r, mode, a))
<1>1. PICK p \in Pruned(l) :
        a = IF isNext(p, r)
              THEN Granted([Dequeue(p, r) EXCEPT !.state = state,
                                                 !.holders = @ \cup {r}])
              ELSE Refused(p, r, mode)
  BY ZenonT(30) DEF TakeUnlocked
<1>2. p \in Lock /\ p.state = l.state /\ p.holders = l.holders /\ QueueOK(p)
  BY PruneLemma DEF LockOK
<1>3. CASE ~isNext(p, r)
  BY <1>1, <1>2, <1>3, RefuseLemma
<1>4. CASE isNext(p, r)
  <2> DEFINE d == Dequeue(p, r)
             k == [d EXCEPT !.state = state, !.holders = @ \cup {r}]
  <2>1. d \in Lock /\ d.state = l.state /\ d.holders = l.holders /\ QueueOK(d)
    BY <1>2, <1>4, DequeueLemma
  <2>2. a = Granted(k)
    BY <1>1, <1>4
  <2> HIDE DEF d
  <2>3. k \in Lock /\ QueueOK(k)
    <3>1. state \in LockState
      BY DEF LockState
    <3>2. k \in Lock /\ k.waitQ = d.waitQ /\ k.waiters = d.waiters
      BY <2>1, <3>1, ZenonT(30) DEF Lock
    <3> HIDE DEF k
    <3> QED BY <2>1, <3>2 DEF QueueOK
  <2>4. k.state = state /\ k.holders = {r} /\ g = {}
    BY <2>1 DEF Lock, LockOK, MatchOK
  <2> HIDE DEF k
  <2>5. MatchOK(k, g \cup {<<r, mode>>})
    BY <2>4 DEF MatchOK
  <2> QED BY <2>2, <2>3, <2>5, GrantLemma
<1> QED BY <1>3, <1>4

\* lockForRead: a case per lock state, as in its switch.
LEMMA ReadAnswersLemma ==
  ASSUME NEW l, NEW g, LockOK(l, g), NEW r \in Requester,
         NEW a \in ReadAnswers(l, r)
  PROVE  LockOK(a.lock, After(g, r, "read", a))
<1>1. l \in Lock /\ QueueOK(l) /\ MatchOK(l, g) /\ l.state \in LockState
  BY DEF LockOK, Lock
<1>2. "read" \in Mode
  BY DEF Mode
<1>3. CASE l.state = "UNLOCKED"
  <2>1. a \in TakeUnlocked(l, r, "read", "LOCKED_FOR_READ")
    BY <1>3 DEF ReadAnswers
  <2> QED BY <1>2, <1>3, <2>1, UnlockedLemma
<1>4. CASE l.state = "LOCKED_FOR_READ" /\ r \in l.holders
  <2>1. a = Granted(l)
    BY <1>4 DEF ReadAnswers
  <2>2. g \cup {<<r, "read">>} = g
    BY <1>1, <1>4 DEF MatchOK
  <2> QED BY <1>1, <1>2, <2>1, <2>2, GrantLemma
<1>5. CASE l.state = "LOCKED_FOR_READ" /\ r \notin l.holders
  <2>1. PICK p \in Pruned(l) :
          a = IF isWriteNext(p) THEN Refused(p, r, "read")
              ELSE Granted([p EXCEPT !.holders = @ \cup {r}])
    BY <1>5 DEF ReadAnswers
  <2>2. p \in Lock /\ p.state = l.state /\ p.holders = l.holders /\ QueueOK(p)
    BY <1>1, PruneLemma
  <2>3. CASE isWriteNext(p)
    BY <1>2, <2>1, <2>2, <2>3, RefuseLemma
  <2>4. CASE ~isWriteNext(p)
    <3> DEFINE k == [p EXCEPT !.holders = @ \cup {r}]
    <3>1. a = Granted(k)
      BY <2>1, <2>4
    <3>2. k \in Lock /\ QueueOK(k) /\ k.holders = l.holders \cup {r}
          /\ k.state = "LOCKED_FOR_READ"
      BY <1>5, <2>2 DEF Lock, QueueOK
    <3>3. g = l.holders \X {"read"}
      BY <1>1, <1>5 DEF MatchOK
    <3> HIDE DEF k
    <3>4. MatchOK(k, g \cup {<<r, "read">>})
      BY <3>2, <3>3 DEF MatchOK
    <3> QED BY <1>2, <3>1, <3>2, <3>4, GrantLemma
  <2> QED BY <2>3, <2>4
<1>6. CASE l.state \in {"LOCKED_FOR_WRITE", "LOCKED_FOR_READ_WRITE"}
  <2>1. a = IF r \in l.holders
              THEN Granted([l EXCEPT !.state = "LOCKED_FOR_READ_WRITE"])
              ELSE Refused(l, r, "read")
    BY <1>6 DEF ReadAnswers
  <2>2. CASE r \in l.holders
    <3> DEFINE k == [l EXCEPT !.state = "LOCKED_FOR_READ_WRITE"]
    <3>1. a = Granted(k)
      BY <2>1, <2>2
    <3>2. k \in Lock /\ QueueOK(k) /\ k.holders = l.holders
          /\ k.state = "LOCKED_FOR_READ_WRITE"
      BY <1>1, ZenonT(30) DEF Lock, QueueOK, LockState
    <3> HIDE DEF k
    <3>3. l.holders = {r} /\ g \cup {<<r, "read">>} = {r} \X Mode
      BY <1>1, <1>6, <2>2 DEF MatchOK, Mode
    <3>4. MatchOK(k, g \cup {<<r, "read">>})
      BY <3>2, <3>3 DEF MatchOK
    <3> QED BY <1>2, <3>1, <3>2, <3>4, GrantLemma
  <2>3. CASE r \notin l.holders
    BY <1>1, <1>2, <2>1, <2>3, RefuseLemma
  <2> QED BY <2>2, <2>3
<1> QED BY <1>1, <1>3, <1>4, <1>5, <1>6 DEF LockState

\* lockForWrite: a case per lock state, as in its switch.
LEMMA WriteAnswersLemma ==
  ASSUME NEW l, NEW g, LockOK(l, g), NEW r \in Requester,
         NEW a \in WriteAnswers(l, r)
  PROVE  LockOK(a.lock, After(g, r, "write", a))
<1>1. l \in Lock /\ QueueOK(l) /\ MatchOK(l, g) /\ l.state \in LockState
  BY DEF LockOK, Lock
<1>2. "write" \in Mode
  BY DEF Mode
<1>3. CASE l.state = "UNLOCKED"
  <2>1. a \in TakeUnlocked(l, r, "write", "LOCKED_FOR_WRITE")
    BY <1>3 DEF WriteAnswers
  <2> QED BY <1>2, <1>3, <2>1, UnlockedLemma
<1>4. CASE l.state = "LOCKED_FOR_READ"
  <2>1. a = IF mayUpgrade(l, r)
              THEN Granted([l EXCEPT !.state = "LOCKED_FOR_READ_WRITE"])
              ELSE Refused(l, r, "write")
    BY <1>4 DEF WriteAnswers
  <2>2. CASE mayUpgrade(l, r)
    <3> DEFINE k == [l EXCEPT !.state = "LOCKED_FOR_READ_WRITE"]
    <3>1. a = Granted(k)
      BY <2>1, <2>2
    <3>2. k \in Lock /\ QueueOK(k) /\ k.holders = l.holders
          /\ k.state = "LOCKED_FOR_READ_WRITE"
      BY <1>1, ZenonT(30) DEF Lock, QueueOK, LockState
    <3> HIDE DEF k
    <3>3. l.holders = {r} /\ g \cup {<<r, "write">>} = {r} \X Mode
      BY <1>1, <1>4, <2>2 DEF MatchOK, Mode, mayUpgrade
    <3>4. MatchOK(k, g \cup {<<r, "write">>})
      BY <3>2, <3>3 DEF MatchOK
    <3> QED BY <1>2, <3>1, <3>2, <3>4, GrantLemma
  <2>3. CASE ~mayUpgrade(l, r)
    BY <1>1, <1>2, <2>1, <2>3, RefuseLemma
  <2> QED BY <2>2, <2>3
<1>5. CASE l.state \in {"LOCKED_FOR_WRITE", "LOCKED_FOR_READ_WRITE"}
  <2>1. a = IF r \in l.holders THEN Granted(l) ELSE Refused(l, r, "write")
    BY <1>5 DEF WriteAnswers
  <2>2. CASE r \in l.holders
    <3>1. g \cup {<<r, "write">>} = g
      BY <1>1, <1>5, <2>2 DEF MatchOK, Mode
    <3> QED BY <1>1, <1>2, <2>1, <2>2, <3>1, GrantLemma
  <2>3. CASE r \notin l.holders
    BY <1>1, <1>2, <2>1, <2>3, RefuseLemma
  <2> QED BY <2>2, <2>3
<1> QED BY <1>1, <1>3, <1>4, <1>5 DEF LockState

\* A change of state or holders leaves the queue alone.
LEMMA ChangeLemma ==
  ASSUME NEW l \in Lock, QueueOK(l), NEW k \in Lock,
         k.waitQ = l.waitQ, k.waiters = l.waiters
  PROVE  QueueOK(k)
BY DEF QueueOK

\* releaseForRead takes back the promise to read, if there is one.
LEMMA AfterReadLemma ==
  ASSUME NEW l, NEW g, LockOK(l, g), NEW r \in Requester
  PROVE  LockOK(AfterRead(l, r), g \ {<<r, "read">>})
<1>1. l \in Lock /\ QueueOK(l) /\ MatchOK(l, g) /\ g \subseteq Requester \X Mode
      /\ l.state \in LockState
  BY DEF LockOK, Lock
<1> DEFINE k == AfterRead(l, r)
<1>2. CASE ~HeldForRead(l, r)
  <2>1. k = l
    BY <1>2 DEF AfterRead
  <2>2. <<r, "read">> \notin g
    BY <1>1, <1>2 DEF MatchOK, HeldForRead, LockState, Mode
  <2>3. g \ {<<r, "read">>} = g
    BY <2>2
  <2> QED BY <2>1, <2>3
<1>3. CASE HeldForRead(l, r) /\ l.state = "LOCKED_FOR_READ_WRITE"
  <2>1. k = [l EXCEPT !.state = "LOCKED_FOR_WRITE"]
    BY <1>3 DEF AfterRead
  <2>2. k \in Lock /\ k.waitQ = l.waitQ /\ k.waiters = l.waiters
        /\ k.holders = l.holders /\ k.state = "LOCKED_FOR_WRITE"
    BY <1>1, <2>1, ZenonT(30) DEF Lock, LockState
  <2> HIDE DEF k
  <2>a. QueueOK(k)
    BY <1>1, <2>2, ChangeLemma
  <2>3. l.holders = {r} /\ g = {<<r, "read">>, <<r, "write">>}
    BY <1>1, <1>3 DEF MatchOK, Mode, HeldForRead
  <2>4. MatchOK(k, g \ {<<r, "read">>})
    BY <2>2, <2>3 DEF MatchOK
  <2> QED BY <1>1, <2>2, <2>a, <2>4 DEF LockOK, k
<1>4. CASE HeldForRead(l, r) /\ l.state = "LOCKED_FOR_READ"
  <2>1. k = [l EXCEPT !.holders = @ \ {r},
                      !.state = IF l.holders = {r} THEN "UNLOCKED" ELSE @]
    BY <1>4 DEF AfterRead
  <2> DEFINE st == IF l.holders = {r} THEN "UNLOCKED" ELSE "LOCKED_FOR_READ"
  <2>0. st \in LockState /\ l.holders \ {r} \in SUBSET Requester
        /\ k = [l EXCEPT !.holders = l.holders \ {r}, !.state = st]
    BY <1>1, <1>4, <2>1 DEF Lock, LockState
  <2> HIDE DEF st
  <2>2. k \in Lock /\ k.waitQ = l.waitQ /\ k.waiters = l.waiters
        /\ k.holders = l.holders \ {r} /\ k.state = st
    BY <1>1, <2>0, ZenonT(30) DEF Lock
  <2> HIDE DEF k
  <2> USE DEF st
  <2>a. QueueOK(k)
    BY <1>1, <2>2, ChangeLemma
  <2>3. r \in l.holders /\ g = l.holders \X {"read"}
    BY <1>1, <1>4 DEF MatchOK, HeldForRead
  <2>4. g \ {<<r, "read">>} = (l.holders \ {r}) \X {"read"}
    BY <2>3
  <2>5. MatchOK(k, g \ {<<r, "read">>})
    BY <2>2, <2>3, <2>4 DEF MatchOK
  <2> QED BY <1>1, <2>2, <2>a, <2>5 DEF LockOK, k
<1> QED BY <1>2, <1>3, <1>4 DEF HeldForRead

\* releaseForWrite takes back the promise to write, if there is one.
LEMMA AfterWriteLemma ==
  ASSUME NEW l, NEW g, LockOK(l, g), NEW r \in Requester
  PROVE  LockOK(AfterWrite(l, r), g \ {<<r, "write">>})
<1>1. l \in Lock /\ QueueOK(l) /\ MatchOK(l, g) /\ g \subseteq Requester \X Mode
      /\ l.state \in LockState
  BY DEF LockOK, Lock
<1> DEFINE k == AfterWrite(l, r)
<1>2. CASE ~HeldForWrite(l, r)
  <2>1. k = l
    BY <1>2 DEF AfterWrite
  <2>2. <<r, "write">> \notin g
    BY <1>1, <1>2 DEF MatchOK, HeldForWrite, LockState, Mode
  <2>3. g \ {<<r, "write">>} = g
    BY <2>2
  <2> QED BY <2>1, <2>3
<1>3. CASE HeldForWrite(l, r) /\ l.state = "LOCKED_FOR_READ_WRITE"
  <2>1. k = [l EXCEPT !.state = "LOCKED_FOR_READ"]
    BY <1>3 DEF AfterWrite
  <2>2. k \in Lock /\ k.waitQ = l.waitQ /\ k.waiters = l.waiters
        /\ k.holders = l.holders /\ k.state = "LOCKED_FOR_READ"
    BY <1>1, <2>1, ZenonT(30) DEF Lock, LockState
  <2> HIDE DEF k
  <2>a. QueueOK(k)
    BY <1>1, <2>2, ChangeLemma
  <2>3. l.holders = {r} /\ g = {<<r, "read">>, <<r, "write">>}
    BY <1>1, <1>3 DEF MatchOK, Mode, HeldForWrite
  <2>4. g \ {<<r, "write">>} = {r} \X {"read"}
    BY <2>3
  <2>5. MatchOK(k, g \ {<<r, "write">>})
    BY <2>2, <2>3, <2>4 DEF MatchOK
  <2> QED BY <1>1, <2>2, <2>a, <2>5 DEF LockOK, k
<1>4. CASE HeldForWrite(l, r) /\ l.state = "LOCKED_FOR_WRITE"
  <2>1. k = [l EXCEPT !.holders = @ \ {r}, !.state = "UNLOCKED"]
    BY <1>4 DEF AfterWrite
  <2> DEFINE st == "UNLOCKED"
  <2>0. st \in LockState /\ l.holders \ {r} \in SUBSET Requester
        /\ k = [l EXCEPT !.holders = l.holders \ {r}, !.state = st]
    BY <1>1, <1>4, <2>1 DEF Lock, LockState
  <2> HIDE DEF st
  <2>2. k \in Lock /\ k.waitQ = l.waitQ /\ k.waiters = l.waiters
        /\ k.holders = l.holders \ {r} /\ k.state = st
    BY <1>1, <2>0, ZenonT(30) DEF Lock
  <2> HIDE DEF k
  <2> USE DEF st
  <2>a. QueueOK(k)
    BY <1>1, <2>2, ChangeLemma
  <2>3. l.holders = {r} /\ g = {<<r, "write">>}
    BY <1>1, <1>4 DEF MatchOK, HeldForWrite
  <2>4. MatchOK(k, g \ {<<r, "write">>})
    BY <2>2, <2>3 DEF MatchOK
  <2> QED BY <1>1, <2>2, <2>a, <2>4 DEF LockOK, k
<1> QED BY <1>2, <1>3, <1>4 DEF HeldForWrite

-----------------------------------------------------------------------------
\* Every call keeps IInv.
LEMMA NextLemma == IInv /\ [Next]_vars => IInv'
<1> SUFFICES ASSUME IInv, [Next]_vars PROVE IInv'
  OBVIOUS
<1>1. CASE UNCHANGED vars
  BY <1>1 DEF vars, IInv
<1>2. ASSUME NEW x \in Key, NEW r \in Requester, NEW mode \in Mode, NEW a,
             LockOK(a.lock, After(granted[x], r, mode, a)),
             Answer(x, r, mode, a)
      PROVE  IInv'
  <2>1. locks' = [locks EXCEPT ![x] = a.lock]
        /\ granted' = [granted EXCEPT ![x] = After(granted[x], r, mode, a)]
    BY <1>2 DEF Answer, After, IInv
  <2> QED BY <1>2, <2>1, UpdateLemma, ZenonT(30)
<1>3. ASSUME NEW x \in Key, NEW r \in Requester, lockForRead(x, r)
      PROVE  IInv'
  <2>1. PICK a \in ReadAnswers(locks[x], r) : Answer(x, r, "read", a)
    BY <1>3 DEF lockForRead
  <2>2. LockOK(a.lock, After(granted[x], r, "read", a))
    BY ReadAnswersLemma DEF IInv
  <2> QED BY <1>2, <2>1, <2>2 DEF Mode
<1>4. ASSUME NEW x \in Key, NEW r \in Requester, lockForWrite(x, r)
      PROVE  IInv'
  <2>1. PICK a \in WriteAnswers(locks[x], r) : Answer(x, r, "write", a)
    BY <1>4 DEF lockForWrite
  <2>2. LockOK(a.lock, After(granted[x], r, "write", a))
    BY WriteAnswersLemma DEF IInv
  <2> QED BY <1>2, <2>1, <2>2 DEF Mode
<1>5. ASSUME NEW x \in Key, NEW r \in Requester, releaseForRead(x, r)
      PROVE  IInv'
  <2>1. LockOK(AfterRead(locks[x], r), granted[x] \ {<<r, "read">>})
    BY AfterReadLemma DEF IInv
  <2>2. /\ locks' = [locks EXCEPT ![x] = AfterRead(locks[x], r)]
        /\ granted' = [granted EXCEPT ![x] = granted[x] \ {<<r, "read">>}]
    BY <1>5 DEF releaseForRead, IInv
  <2> QED BY <2>1, <2>2, UpdateLemma, ZenonT(30)
<1>6. ASSUME NEW x \in Key, NEW r \in Requester, releaseForWrite(x, r)
      PROVE  IInv'
  <2>1. LockOK(AfterWrite(locks[x], r), granted[x] \ {<<r, "write">>})
    BY AfterWriteLemma DEF IInv
  <2>2. /\ locks' = [locks EXCEPT ![x] = AfterWrite(locks[x], r)]
        /\ granted' = [granted EXCEPT ![x] = granted[x] \ {<<r, "write">>}]
    BY <1>6 DEF releaseForWrite, IInv
  <2> QED BY <2>1, <2>2, UpdateLemma, ZenonT(30)
<1> QED BY <1>1, <1>3, <1>4, <1>5, <1>6 DEF Next

(***************************************************************************)
(* The lock table is well formed in every reachable state.                 *)
(***************************************************************************)
THEOREM TypeCorrect == Spec => []TypeOK
BY InitLemma, NextLemma, IInvImplies, PTL DEF Spec

(***************************************************************************)
(* The state word and the holders of a lock say exactly what the callers   *)
(* of lockForRead and lockForWrite were promised and have not released.    *)
(***************************************************************************)
THEOREM Bookkeeping == Spec => []HoldersMatchGrants
BY InitLemma, NextLemma, IInvImplies, PTL DEF Spec

(***************************************************************************)
(* waitQ and waiters always describe the same queue, without duplicates.   *)
(***************************************************************************)
THEOREM QueueSafe == Spec => []QueueConsistent
BY InitLemma, NextLemma, IInvImplies, PTL DEF Spec

\* A lock that matches its grants is exclusive.
LEMMA ExclusionLemma == IInv => Exclusion
<1> SUFFICES ASSUME IInv, NEW x \in Key,
                    NEW g \in granted[x], NEW h \in granted[x],
                    g[2] = "write"
             PROVE  g[1] = h[1]
  BY DEF Exclusion
<1>1. locks[x].state \in LockState /\ MatchOK(locks[x], granted[x])
  BY DEF IInv, LockOK, Lock
<1> QED BY <1>1 DEF MatchOK, LockState

(***************************************************************************)
(* Multi-reader, single-writer, for any number of locks and requesters.    *)
(***************************************************************************)
THEOREM SingleWriter == Spec => []Exclusion
BY ExclusionLemma, InitLemma, NextLemma, PTL DEF Spec

-----------------------------------------------------------------------------
(***************************************************************************)
(* The inductive invariant: the table is in order, a prepared transaction  *)
(* holds every lock it wants, and nobody holds a lock it does not want.    *)
(* The second conjunct gives isolation together with the first; the third  *)
(* is what dropLocks needs in order to leave nothing behind.               *)
(***************************************************************************)
HoldsAll == \A t \in prepared, k \in Key : \A m \in Wanted(k, t) :
              <<t, m>> \in granted[k]

HoldsOnly == \A t \in Requester, k \in Key, m \in Mode :
               <<t, m>> \in granted[k] => m \in Wanted(k, t)

SetsOK == /\ prepared \subseteq pending /\ precommitted \subseteq pending
          /\ pending \subseteq Requester /\ decided \subseteq Requester
          /\ prepared \cap precommitted = {}

StoreInv == IInv /\ HoldsAll /\ HoldsOnly /\ SetsOK

-----------------------------------------------------------------------------
\* Asking for one key keeps its lock in order, and grants only what is wanted.
LEMMA OutcomeLemma ==
  ASSUME NEW k \in Key, NEW t \in Requester, LockOK(locks[k], granted[k]),
         NEW o \in Outcomes(k, t)
  PROVE  /\ LockOK(o.lock, granted[k] \cup ({t} \X o.got))
         /\ o.got \subseteq Wanted(k, t)
<1>1. PICK p \in ForRead(k, t) : o \in ForWrite(p, k, t)
  BY DEF Outcomes
<1> DEFINE g == granted[k] \cup ({t} \X p.got)
<1>2. LockOK(p.lock, g) /\ p.got \subseteq {"read"} \cap Wanted(k, t)
  <2>1. CASE k \notin readSet[t]
    <3>1. p = [lock |-> locks[k], got |-> {}]
      BY <2>1 DEF ForRead
    <3>2. g = granted[k]
      BY <3>1
    <3> QED BY <3>1, <3>2, ZenonT(30)
  <2>2. CASE k \in readSet[t]
    <3>1. PICK a \in ReadAnswers(locks[k], t) :
            p = [lock |-> a.lock, got |-> IF a.ok THEN {"read"} ELSE {}]
      BY <2>2 DEF ForRead
    <3>2. LockOK(a.lock, After(granted[k], t, "read", a))
      BY ReadAnswersLemma
    <3>3. After(granted[k], t, "read", a) = g
      BY <3>1 DEF After
    <3> QED BY <2>2, <3>1, <3>2, <3>3, ZenonT(30) DEF Wanted
  <2> QED BY <2>1, <2>2
<1>3. CASE k \notin writeSet[t]
  BY <1>1, <1>2, <1>3 DEF ForWrite
<1>4. CASE k \in writeSet[t]
  <2>1. PICK a \in WriteAnswers(p.lock, t) :
          o = [lock |-> a.lock,
               got |-> IF a.ok THEN p.got \cup {"write"} ELSE p.got]
    BY <1>1, <1>4 DEF ForWrite
  <2> HIDE DEF g
  <2>2. LockOK(a.lock, After(g, t, "write", a))
    BY <1>2, WriteAnswersLemma
  <2>3. After(g, t, "write", a) = granted[k] \cup ({t} \X o.got)
    BY <2>1 DEF After, g
  <2> QED BY <1>2, <1>4, <2>1, <2>2, <2>3, ZenonT(30) DEF Wanted
<1> QED BY <1>3, <1>4

\* dropLocks keeps a lock in order and takes back what t wanted of it.
LEMMA DropLemma ==
  ASSUME NEW k \in Key, NEW t \in Requester, LockOK(locks[k], granted[k])
  PROVE  LockOK(Dropped(k, t), granted[k] \ ({t} \X Wanted(k, t)))
<1> DEFINE l == IF k \in writeSet[t] THEN AfterWrite(locks[k], t) ELSE locks[k]
           g == IF k \in writeSet[t] THEN granted[k] \ {<<t, "write">>}
                ELSE granted[k]
<1>1. LockOK(l, g)
  BY AfterWriteLemma
<1>2. Dropped(k, t) = IF k \in readSet[t] THEN AfterRead(l, t) ELSE l
  BY DEF Dropped
<1>3. granted[k] \ ({t} \X Wanted(k, t))
        = IF k \in readSet[t] THEN g \ {<<t, "read">>} ELSE g
  BY DEF Wanted
<1> HIDE DEF l, g
<1> QED BY <1>1, <1>2, <1>3, AfterReadLemma

-----------------------------------------------------------------------------
\* Initially no lock is held and nothing is prepared.
LEMMA StoreInitLemma == StoreInit => StoreInv
<1> SUFFICES ASSUME StoreInit PROVE StoreInv
  OBVIOUS
<1>1. IInv
  BY InitLemma DEF StoreInit
<1>2. HoldsAll /\ HoldsOnly /\ SetsOK
  BY DEF StoreInit, Init, HoldsAll, HoldsOnly, SetsOK
<1> QED BY <1>1, <1>2 DEF StoreInv

\* Prepare: granted locks are added, and all wanted ones before t is prepared.
LEMMA PrepareLemma ==
  ASSUME StoreInv, NEW t \in Requester, Prepare(t)
  PROVE  StoreInv'
<1>1. CASE t \in prepared
  BY <1>1 DEF Prepare, StoreInv, IInv, HoldsAll, HoldsOnly, SetsOK, Wanted
<1>2. CASE t \notin prepared
  <2>1. PICK o : /\ getLocks(t, o)
                 /\ \/ /\ AllLocked(o, t)
                       /\ prepared' = prepared \cup {t}
                       /\ pending' = pending \cup {t}
                    \/ UNCHANGED <<prepared, pending>>
    BY <1>2 DEF Prepare
  <2>2. \A k \in Key : /\ locks'[k] = o[k].lock
                       /\ granted'[k] = granted[k] \cup ({t} \X o[k].got)
                       /\ LockOK(locks'[k], granted'[k])
                       /\ o[k].got \subseteq Wanted(k, t)
    BY <2>1, OutcomeLemma, ZenonT(30) DEF getLocks, StoreInv, IInv
  <2>3. IInv'
    BY <2>1, <2>2, ZenonT(30) DEF getLocks, IInv
  <2>4. HoldsAll'
    <3> SUFFICES ASSUME NEW u \in prepared', NEW k \in Key, NEW m \in Wanted(k, u)
                 PROVE  <<u, m>> \in granted'[k]
      BY ZenonT(30) DEF HoldsAll, Wanted
    <3>1. CASE u \in prepared
      BY <2>2, <3>1 DEF StoreInv, HoldsAll
    <3>2. CASE u \notin prepared
      BY <2>1, <2>2, <3>2 DEF AllLocked
    <3> QED BY <3>1, <3>2
  <2>5. HoldsOnly'
    <3> SUFFICES ASSUME NEW u \in Requester, NEW k \in Key, NEW m \in Mode,
                        <<u, m>> \in granted'[k]
                 PROVE  m \in Wanted(k, u)
      BY DEF HoldsOnly, Wanted
    <3> QED BY <2>2 DEF StoreInv, HoldsOnly
  <2>6. SetsOK'
    BY <2>1, <1>2 DEF Prepare, StoreInv, SetsOK
  <2> QED BY <2>3, <2>4, <2>5, <2>6 DEF StoreInv
<1> QED BY <1>1, <1>2

\* dropLocks leaves t with no lock at all, and everybody else with theirs.
LEMMA DropLocksLemma ==
  ASSUME StoreInv, NEW t \in Requester, dropLocks(t),
         prepared' = prepared \ {t}
  PROVE  /\ IInv' /\ HoldsAll' /\ HoldsOnly'
         /\ \A k \in Key, m \in Mode : <<t, m>> \notin granted'[k]
<1>1. \A k \in Key : /\ granted'[k] = granted[k] \ ({t} \X Wanted(k, t))
                     /\ LockOK(locks'[k], granted'[k])
  BY DropLemma DEF dropLocks, StoreInv, IInv
<1>2. IInv'
  BY <1>1 DEF dropLocks, IInv
<1>3. HoldsAll'
  <2> SUFFICES ASSUME NEW u \in prepared', NEW k \in Key, NEW m \in Wanted(k, u)
               PROVE  <<u, m>> \in granted'[k]
    BY ZenonT(30) DEF HoldsAll, Wanted
  <2> QED BY <1>1 DEF StoreInv, HoldsAll
<1>4. HoldsOnly' /\ \A k \in Key, m \in Mode : <<t, m>> \notin granted'[k]
  <2>1. ASSUME NEW u \in Requester, NEW k \in Key, NEW m \in Mode,
               <<u, m>> \in granted'[k]
        PROVE  m \in Wanted(k, u) /\ u # t
    BY <1>1, <2>1 DEF StoreInv, HoldsOnly
  <2> QED BY <2>1 DEF HoldsOnly, Wanted
<1> QED BY <1>2, <1>3, <1>4

\* When the locks do not change, the invariant follows its sets.
LEMMA SameLocksLemma ==
  ASSUME StoreInv, UNCHANGED <<locks, granted>>, prepared' \subseteq prepared
  PROVE  IInv' /\ HoldsAll' /\ HoldsOnly'
<1>1. IInv'
  BY DEF StoreInv, IInv
<1>2. HoldsAll' /\ HoldsOnly'
  BY DEF StoreInv, HoldsAll, HoldsOnly, Wanted
<1> QED BY <1>1, <1>2

\* Every operation of the store keeps the invariant.
LEMMA StoreNextLemma == StoreInv /\ [StoreNext]_storeVars => StoreInv'
<1> SUFFICES ASSUME StoreInv, [StoreNext]_storeVars PROVE StoreInv'
  OBVIOUS
<1>1. CASE UNCHANGED storeVars
  <2>1. SetsOK'
    BY <1>1 DEF storeVars, StoreInv, SetsOK
  <2> QED BY <1>1, <2>1, SameLocksLemma DEF storeVars, StoreInv
<1>2. ASSUME NEW t \in Requester, Prepare(t) PROVE StoreInv'
  BY <1>2, PrepareLemma
<1>3. ASSUME NEW t \in Requester, PreCommit(t), t \in pending PROVE StoreInv'
  <2>1. IInv' /\ HoldsAll' /\ HoldsOnly'
    <3>1. CASE t \in prepared /\ dropLocks(t)
      BY <1>3, <3>1, DropLocksLemma DEF PreCommit
    <3>2. CASE UNCHANGED <<locks, granted>>
      BY <1>3, <3>2, SameLocksLemma DEF PreCommit
    <3> QED BY <1>3, <3>1, <3>2 DEF PreCommit
  <2>2. SetsOK'
    BY <1>3 DEF PreCommit, StoreInv, SetsOK
  <2> QED BY <2>1, <2>2 DEF StoreInv
<1>4. ASSUME NEW t \in Requester, Decide(t), t \in pending PROVE StoreInv'
  <2>1. IInv' /\ HoldsAll' /\ HoldsOnly'
    <3>1. CASE dropLocks(t) /\ prepared' = prepared \ {t}
      BY <3>1, DropLocksLemma
    <3>2. CASE UNCHANGED <<locks, granted, prepared>>
      BY <3>2, SameLocksLemma
    <3> QED BY <1>4, <3>1, <3>2 DEF Decide
  <2>2. SetsOK'
    BY <1>4 DEF Decide, StoreInv, SetsOK
  <2> QED BY <2>1, <2>2 DEF StoreInv
<1>5. ASSUME NEW t \in Requester, PreCommit(t) \/ Decide(t), t \notin pending
      PROVE  UNCHANGED storeVars
  BY <1>5 DEF PreCommit, Decide
<1> QED BY <1>1, <1>2, <1>3, <1>4, <1>5 DEF StoreNext

-----------------------------------------------------------------------------
(***************************************************************************)
(* Type correctness of the store.                                          *)
(***************************************************************************)
THEOREM StoreTypeCorrect == StoreSpec => []StoreTypeOK
<1>1. StoreInv => StoreTypeOK
  BY IInvImplies DEF StoreInv, SetsOK, StoreTypeOK
<1> QED BY <1>1, StoreInitLemma, StoreNextLemma, PTL DEF StoreSpec

(***************************************************************************)
(* What holds of the lock table under any calls holds under the store's,   *)
(* which take and drop many locks in a step.                               *)
(***************************************************************************)
THEOREM TableSafe ==
  StoreSpec => [](Exclusion /\ HoldersMatchGrants /\ QueueConsistent)
<1>1. StoreInv => Exclusion /\ HoldersMatchGrants /\ QueueConsistent
  BY IInvImplies, ExclusionLemma DEF StoreInv
<1> QED BY <1>1, StoreInitLemma, StoreNextLemma, PTL DEF StoreSpec

(***************************************************************************)
(* Prepared transactions do not conflict, for any number of transactions   *)
(* and keys and any read and write sets: a writer holds the lock of its    *)
(* key for writing, its reader or other writer would hold it too, and the  *)
(* lock table does not promise that.                                       *)
(***************************************************************************)
THEOREM PreparedIsolated == StoreSpec => []LockedConflictFree
<1>1. StoreInv => LockedConflictFree
  <2> SUFFICES ASSUME StoreInv, NEW t \in prepared, NEW u \in prepared, t # u,
                      NEW k \in writeSet[t], k \in readSet[u] \cup writeSet[u]
               PROVE  FALSE
    BY DEF LockedConflictFree
  <2>1. k \in Key /\ t \in Requester /\ u \in Requester
    BY LockStoreAssumption DEF StoreInv, SetsOK
  <2>2. <<t, "write">> \in granted[k] /\ \E m \in Mode : <<u, m>> \in granted[k]
    BY <2>1 DEF StoreInv, HoldsAll, Wanted, Mode
  <2>3. MatchOK(locks[k], granted[k]) /\ locks[k].state \in LockState
    BY <2>1 DEF StoreInv, IInv, LockOK, Lock
  <2> QED BY <2>2, <2>3 DEF MatchOK, LockState
<1> QED BY <1>1, StoreInitLemma, StoreNextLemma, PTL DEF StoreSpec

(***************************************************************************)
(* A prepared transaction gives back every lock in the step that           *)
(* pre-commits or decides it.                                              *)
(***************************************************************************)
THEOREM LocksReleased == StoreSpec => ReleasedWhenDecided
<1>1. ASSUME StoreInv, [StoreNext]_storeVars
      PROVE  [\A t \in Requester :
                (t \in prepared /\ t \notin prepared')
                  => \A k \in Key, m \in Mode :
                       <<t, m>> \notin granted'[k]]_storeVars
  <2> SUFFICES ASSUME NEW u \in Requester, u \in prepared, u \notin prepared',
                      StoreNext
               PROVE  \A k \in Key, m \in Mode : <<u, m>> \notin granted'[k]
    BY <1>1 DEF storeVars
  <2>1. PICK t \in Requester : PreCommit(t) \/ Decide(t)
    BY DEF StoreNext, Prepare
  <2>2. u = t /\ dropLocks(t) /\ prepared' = prepared \ {t}
    BY <1>1, <2>1 DEF PreCommit, Decide, StoreInv, SetsOK, storeVars
  <2> QED BY <1>1, <2>2, DropLocksLemma
<1> QED BY <1>1, StoreInitLemma, StoreNextLemma, PTL
        DEF StoreSpec, ReleasedWhenDecided

-----------------------------------------------------------------------------
(***************************************************************************)
(* No overtaking.  What a call of r may do to the queue of a lock, from l  *)
(* to k: it brings in nobody but r, and a writer at the head that stays in *)
(* the queue stays at the head, with no new holder.                        *)
(***************************************************************************)
Queued(l, w) == \E i \in 1..Len(l.waitQ) : l.waitQ[i] = w

HeadWriter(l, w) ==
  l.waitQ # <<>> /\ l.waitQ[1] = w /\ l.waiters[w] = "write"

Orderly(l, k, r) ==
  /\ k.holders \subseteq l.holders \cup {r}
  /\ \A w \in Requester \ {r} :
       /\ Queued(k, w) => Queued(l, w)
       /\ HeadWriter(l, w) /\ Queued(k, w)
            => HeadWriter(k, w) /\ k.holders \subseteq l.holders

LEMMA OrderlyTwice ==
  ASSUME NEW l, NEW p, NEW k, NEW r, Orderly(l, p, r), Orderly(p, k, r)
  PROVE  Orderly(l, k, r)
BY ZenonT(30) DEF Orderly

\* The same queue, and a new holder only where no other writer is next.
LEMMA SameQueueLemma ==
  ASSUME NEW l, NEW k, NEW r, k.waitQ = l.waitQ, k.waiters = l.waiters,
         \/ k.holders \subseteq l.holders
         \/ /\ k.holders \subseteq l.holders \cup {r}
            /\ \A w \in Requester \ {r} : ~HeadWriter(l, w)
  PROVE  Orderly(l, k, r)
BY DEF Orderly, Queued, HeadWriter

\* Pruning drops the head of the queue first.
LEMMA PruneOrderly ==
  ASSUME NEW l \in Lock, QueueOK(l), NEW p \in Pruned(l), NEW r
  PROVE  Orderly(l, p, r)
<1>1. PICK old \in 0..Len(l.waitQ) : p = Prune(l, old)
  BY DEF Pruned
<1>2. l.waitQ \in Seq(Requester) /\ Len(l.waitQ) \in Nat /\ old \in Nat
  BY DEF Lock
<1>3. p.holders = l.holders
  BY PruneLemma
<1>4. p.waitQ = SubSeq(l.waitQ, old + 1, Len(l.waitQ))
  BY <1>1, ZenonT(30) DEF Prune, Lock
<1>5. /\ Len(p.waitQ) = Len(l.waitQ) - old
      /\ \A i \in 1..Len(p.waitQ) : p.waitQ[i] = l.waitQ[i + old]
  BY <1>2, <1>4
<1>6. \A i \in 1..Len(p.waitQ) : i + old \in 1..Len(l.waitQ)
  BY <1>2, <1>5
<1>7. ASSUME NEW w \in Requester, Queued(p, w)
      PROVE  Queued(l, w)
  BY <1>5, <1>6, <1>7, ZenonT(30) DEF Queued
<1>8. ASSUME NEW w \in Requester, HeadWriter(l, w), Queued(p, w)
      PROVE  HeadWriter(p, w)
  <2>1. PICK i \in 1..Len(p.waitQ) : p.waitQ[i] = w
    BY <1>8, ZenonT(30) DEF Queued
  <2>2. l.waitQ[i + old] = l.waitQ[1] /\ i + old \in 1..Len(l.waitQ)
    BY <1>5, <1>6, <1>8, <2>1, ZenonT(30) DEF HeadWriter
  <2>3. 1 \in 1..Len(l.waitQ)
    BY <1>2, <2>2
  <2>4. i + old = 1
    <3>1. \A a, b \in 1..Len(l.waitQ) : l.waitQ[a] = l.waitQ[b] => a = b
      BY ZenonT(30) DEF QueueOK
    <3> QED BY <2>2, <2>3, <3>1, ZenonT(30)
  <2>5. old = 0 /\ i = 1
    BY <1>2, <1>5, <2>1, <2>4
  <2>6. p.waitQ[1] = w /\ p.waitQ # <<>>
    BY <1>2, <2>1, <2>5
  <2>7. ~ \E j \in 1..old : l.waitQ[j] = w
    BY <2>5
  <2>8. p.waiters = [q \in Requester |-> IF \E j \in 1..old : l.waitQ[j] = q
                                           THEN "none" ELSE l.waiters[q]]
    BY <1>1, ZenonT(30) DEF Prune, Lock
  <2>9. p.waiters[w] = l.waiters[w]
    BY <2>7, <2>8, ZenonT(30)
  <2> QED BY <1>8, <2>6, <2>9 DEF HeadWriter
<1> QED BY <1>3, <1>7, <1>8 DEF Orderly

\* A refused requester is queued last.
LEMMA WaitOrderly ==
  ASSUME NEW l \in Lock, NEW r \in Requester, NEW mode
  PROVE  Orderly(l, waitForLock(l, r, mode), r)
<1> DEFINE k == waitForLock(l, r, mode)
<1>1. CASE l.waiters[r] # "none"
  <2>1. k = l
    BY <1>1 DEF waitForLock
  <2> QED BY <2>1, SameQueueLemma
<1>2. CASE l.waiters[r] = "none"
  <2>1. /\ k.holders = l.holders /\ k.waitQ = Append(l.waitQ, r)
        /\ k.waiters = [l.waiters EXCEPT ![r] = mode]
    BY <1>2, ZenonT(30) DEF waitForLock, Lock
  <2>2. l.waitQ \in Seq(Requester) /\ l.waiters \in [Requester -> Mode \cup {"none"}]
    BY DEF Lock
  <2> HIDE DEF k
  <2>3. /\ Len(k.waitQ) = Len(l.waitQ) + 1 /\ Len(l.waitQ) \in Nat
        /\ k.waitQ[Len(k.waitQ)] = r
        /\ \A i \in 1..Len(l.waitQ) : k.waitQ[i] = l.waitQ[i]
    BY <2>1, <2>2
  <2>4. ASSUME NEW w \in Requester \ {r}, Queued(k, w)
        PROVE  Queued(l, w)
    <3>1. PICK i \in 1..Len(k.waitQ) : k.waitQ[i] = w
      BY <2>4, ZenonT(30) DEF Queued
    <3>2. i # Len(k.waitQ)
      BY <2>3, <3>1
    <3>3. i \in 1..Len(l.waitQ)
      BY <2>3, <3>2
    <3> QED BY <2>3, <3>1, <3>3, ZenonT(30) DEF Queued
  <2>5. ASSUME NEW w \in Requester \ {r}, HeadWriter(l, w)
        PROVE  HeadWriter(k, w)
    <3>1. l.waitQ # <<>> /\ l.waitQ[1] = w /\ l.waiters[w] = "write"
      BY <2>5 DEF HeadWriter
    <3>2. 1 \in 1..Len(l.waitQ)
      BY <2>2, <3>1
    <3>3. k.waitQ[1] = w /\ k.waitQ # <<>>
      BY <2>2, <2>3, <3>1, <3>2
    <3>4. k.waiters[w] = "write"
      BY <2>1, <2>2, <3>1
    <3> QED BY <3>3, <3>4 DEF HeadWriter
  <2> QED BY <2>1, <2>4, <2>5 DEF Orderly, k
<1> QED BY <1>1, <1>2

\* A requester that is next, or finds no queue, is granted an unlocked lock.
LEMMA DequeueOrderly ==
  ASSUME NEW l \in Lock, NEW r \in Requester, isNext(l, r), NEW k,
         k.waitQ = Dequeue(l, r).waitQ, k.holders \subseteq l.holders \cup {r}
  PROVE  Orderly(l, k, r)
<1>1. l.waitQ \in Seq(Requester)
  BY DEF Lock
<1>2. \A w \in Requester \ {r} : ~HeadWriter(l, w)
  BY <1>1 DEF isNext, HeadWriter
<1>3. ASSUME NEW w \in Requester, Queued(k, w)
      PROVE  Queued(l, w)
  <2>1. CASE l.waitQ = <<>>
    BY <1>3, <2>1 DEF Dequeue, Queued
  <2>2. CASE l.waitQ # <<>>
    <3>1. k.waitQ = Tail(l.waitQ)
      BY <2>2, ZenonT(30) DEF Dequeue, Lock
    <3>2. /\ Len(k.waitQ) = Len(l.waitQ) - 1 /\ Len(l.waitQ) \in Nat
          /\ \A i \in 1..Len(k.waitQ) : k.waitQ[i] = l.waitQ[i + 1]
      BY <1>1, <2>2, <3>1
    <3>3. PICK i \in 1..Len(k.waitQ) : k.waitQ[i] = w
      BY <1>3, ZenonT(30) DEF Queued
    <3>4. i + 1 \in 1..Len(l.waitQ) /\ l.waitQ[i + 1] = w
      BY <3>2, <3>3
    <3> QED BY <3>4, ZenonT(30) DEF Queued
  <2> QED BY <2>1, <2>2
<1> QED BY <1>2, <1>3, ZenonT(30) DEF Orderly

\* Refused after pruning.
LEMMA RefusedOrderly ==
  ASSUME NEW l \in Lock, QueueOK(l), NEW p \in Pruned(l), NEW r \in Requester,
         NEW mode
  PROVE  Orderly(l, Refused(p, r, mode).lock, r)
<1>1. p \in Lock /\ Orderly(l, p, r)
  BY PruneLemma, PruneOrderly
<1>2. Orderly(p, waitForLock(p, r, mode), r)
  BY <1>1, WaitOrderly
<1>3. Refused(p, r, mode).lock = waitForLock(p, r, mode)
  BY DEF Refused
<1> QED BY <1>1, <1>2, <1>3, OrderlyTwice, ZenonT(30)

LEMMA UnlockedOrderly ==
  ASSUME NEW l \in Lock, QueueOK(l), NEW r \in Requester, NEW mode, NEW state,
         NEW a \in TakeUnlocked(l, r, mode, state)
  PROVE  Orderly(l, a.lock, r)
<1>1. PICK p \in Pruned(l) :
        a = IF isNext(p, r)
              THEN Granted([Dequeue(p, r) EXCEPT !.state = state,
                                                 !.holders = @ \cup {r}])
              ELSE Refused(p, r, mode)
  BY ZenonT(30) DEF TakeUnlocked
<1>2. CASE ~isNext(p, r)
  BY <1>1, <1>2, RefusedOrderly
<1>3. CASE isNext(p, r)
  <2>1. p \in Lock /\ QueueOK(p) /\ Orderly(l, p, r)
    BY PruneLemma, PruneOrderly
  <2> DEFINE d == Dequeue(p, r)
             k == [d EXCEPT !.state = state, !.holders = @ \cup {r}]
  <2>2. d \in Lock /\ d.holders = p.holders
    BY <1>3, <2>1, DequeueLemma
  <2>3. a.lock = k
    BY <1>1, <1>3 DEF Granted
  <2> HIDE DEF d
  <2>4. k.waitQ = d.waitQ /\ k.holders = p.holders \cup {r}
    BY <2>2, ZenonT(30) DEF Lock
  <2> HIDE DEF k
  <2>5. Orderly(p, k, r)
    BY <1>3, <2>1, <2>4, DequeueOrderly DEF d
  <2> QED BY <2>1, <2>3, <2>5, OrderlyTwice
<1> QED BY <1>2, <1>3

\* The answers that look at no queue.
LEMMA HeldOrderly ==
  ASSUME NEW l \in Lock, NEW r \in Requester, NEW mode, NEW state, NEW a,
         \/ a = Granted(l) \/ a = Granted([l EXCEPT !.state = state])
         \/ a = Refused(l, r, mode)
  PROVE  Orderly(l, a.lock, r)
<1>1. CASE a = Granted(l)
  BY <1>1, SameQueueLemma DEF Granted
<1>2. CASE a = Granted([l EXCEPT !.state = state])
  <2>1. /\ a.lock.waitQ = l.waitQ /\ a.lock.waiters = l.waiters
        /\ a.lock.holders = l.holders
    BY <1>2, ZenonT(30) DEF Granted, Lock
  <2> QED BY <2>1, SameQueueLemma
<1>3. CASE a = Refused(l, r, mode)
  BY <1>3, WaitOrderly DEF Refused
<1> QED BY <1>1, <1>2, <1>3

LEMMA ReadOrderly ==
  ASSUME NEW l \in Lock, QueueOK(l), NEW r \in Requester,
         NEW a \in ReadAnswers(l, r)
  PROVE  Orderly(l, a.lock, r)
<1>1. l.state \in LockState
  BY DEF Lock
<1>2. CASE l.state = "UNLOCKED"
  <2>1. a \in TakeUnlocked(l, r, "read", "LOCKED_FOR_READ")
    BY <1>2 DEF ReadAnswers
  <2> QED BY <2>1, UnlockedOrderly
<1>3. CASE l.state = "LOCKED_FOR_READ" /\ r \in l.holders
  <2>1. a.lock = l
    BY <1>3 DEF ReadAnswers, Granted
  <2> QED BY <2>1, SameQueueLemma
<1>4. CASE l.state = "LOCKED_FOR_READ" /\ r \notin l.holders
  <2>1. PICK p \in Pruned(l) :
          a = IF isWriteNext(p) THEN Refused(p, r, "read")
              ELSE Granted([p EXCEPT !.holders = @ \cup {r}])
    BY <1>4 DEF ReadAnswers
  <2>2. CASE isWriteNext(p)
    BY <2>1, <2>2, RefusedOrderly
  <2>3. CASE ~isWriteNext(p)
    <3>1. p \in Lock /\ Orderly(l, p, r)
      BY PruneLemma, PruneOrderly
    <3> DEFINE k == [p EXCEPT !.holders = @ \cup {r}]
    <3>2. a.lock = k
      BY <2>1, <2>3 DEF Granted
    <3>3. k.waitQ = p.waitQ /\ k.waiters = p.waiters
            /\ k.holders = p.holders \cup {r}
      BY <3>1, ZenonT(30) DEF Lock
    <3> HIDE DEF k
    <3>4. p.waitQ \in Seq(Requester)
      BY <3>1 DEF Lock
    <3>5. \A w \in Requester : ~HeadWriter(p, w)
      BY <2>3, <3>4 DEF isWriteNext, HeadWriter
    <3>6. Orderly(p, k, r)
      BY <3>3, <3>5, SameQueueLemma
    <3> QED BY <3>1, <3>2, <3>6, OrderlyTwice
  <2> QED BY <2>2, <2>3
<1>5. CASE l.state \in {"LOCKED_FOR_WRITE", "LOCKED_FOR_READ_WRITE"}
  <2>1. \/ a = Granted([l EXCEPT !.state = "LOCKED_FOR_READ_WRITE"])
        \/ a = Refused(l, r, "read")
    BY <1>5 DEF ReadAnswers
  <2> QED BY <2>1, HeldOrderly
<1> QED BY <1>1, <1>2, <1>3, <1>4, <1>5 DEF LockState

LEMMA WriteOrderly ==
  ASSUME NEW l \in Lock, QueueOK(l), NEW r \in Requester,
         NEW a \in WriteAnswers(l, r)
  PROVE  Orderly(l, a.lock, r)
<1>1. l.state \in LockState
  BY DEF Lock
<1>2. CASE l.state = "UNLOCKED"
  <2>1. a \in TakeUnlocked(l, r, "write", "LOCKED_FOR_WRITE")
    BY <1>2 DEF WriteAnswers
  <2> QED BY <2>1, UnlockedOrderly
<1>3. CASE l.state # "UNLOCKED"
  <2>1. \/ a = Granted([l EXCEPT !.state = "LOCKED_FOR_READ_WRITE"])
        \/ a = Granted(l)
        \/ a = Refused(l, r, "write")
    BY <1>1, <1>3 DEF WriteAnswers, LockState
  <2> QED BY <2>1, HeldOrderly
<1> QED BY <1>2, <1>3

\* The releases leave the queue alone.
LEMMA ReleaseOrderly ==
  ASSUME NEW l \in Lock, NEW r
  PROVE  Orderly(l, AfterRead(l, r), r) /\ Orderly(l, AfterWrite(l, r), r)
<1>1. ASSUME NEW k \in {AfterRead(l, r), AfterWrite(l, r)}
      PROVE  /\ k.waitQ = l.waitQ /\ k.waiters = l.waiters
             /\ k.holders \subseteq l.holders
  BY ZenonT(30) DEF AfterRead, AfterWrite, Lock
<1> QED BY <1>1, SameQueueLemma

\* One step of the store, on one lock.
LEMMA StepOrderly ==
  ASSUME StoreInv, NEW t \in Requester,
         Prepare(t) \/ PreCommit(t) \/ Decide(t), NEW x \in Key
  PROVE  Orderly(locks[x], locks'[x], t)
<1>1. LockOK(locks[x], granted[x])
  BY DEF StoreInv, IInv
<1>2. locks[x] \in Lock /\ QueueOK(locks[x])
  BY <1>1 DEF LockOK
<1>3. CASE UNCHANGED locks
  BY <1>3, SameQueueLemma
<1>4. CASE dropLocks(t)
  <2> DEFINE l == IF x \in writeSet[t] THEN AfterWrite(locks[x], t) ELSE locks[x]
  <2>1. l \in Lock /\ Orderly(locks[x], l, t)
    <3>1. CASE x \in writeSet[t]
      <4>1. LockOK(AfterWrite(locks[x], t), granted[x] \ {<<t, "write">>})
        BY <1>1, AfterWriteLemma
      <4> QED BY <1>2, <3>1, <4>1, ReleaseOrderly DEF LockOK
    <3>2. CASE x \notin writeSet[t]
      BY <1>2, <3>2, SameQueueLemma
    <3> QED BY <3>1, <3>2
  <2>2. locks'[x] = IF x \in readSet[t] THEN AfterRead(l, t) ELSE l
    BY <1>4 DEF dropLocks, Dropped
  <2> HIDE DEF l
  <2>3. Orderly(l, locks'[x], t)
    BY <2>1, <2>2, ReleaseOrderly, SameQueueLemma
  <2> QED BY <2>1, <2>3, OrderlyTwice
<1>5. ASSUME NEW o, getLocks(t, o) PROVE Orderly(locks[x], locks'[x], t)
  <2>1. locks'[x] = o[x].lock /\ o[x] \in Outcomes(x, t)
    BY <1>5 DEF getLocks
  <2>2. PICK p \in ForRead(x, t) : o[x] \in ForWrite(p, x, t)
    BY <2>1 DEF Outcomes
  <2>3. p.lock \in Lock /\ QueueOK(p.lock) /\ Orderly(locks[x], p.lock, t)
    <3>1. CASE x \notin readSet[t]
      <4>1. p.lock = locks[x]
        BY <3>1 DEF ForRead
      <4> QED BY <1>2, <4>1, SameQueueLemma
    <3>2. CASE x \in readSet[t]
      <4>1. PICK a \in ReadAnswers(locks[x], t) : p.lock = a.lock
        BY <3>2 DEF ForRead
      <4>2. LockOK(a.lock, After(granted[x], t, "read", a))
        BY <1>1, ReadAnswersLemma
      <4> QED BY <1>2, <4>1, <4>2, ReadOrderly DEF LockOK
    <3> QED BY <3>1, <3>2
  <2>4. Orderly(p.lock, o[x].lock, t)
    <3>1. CASE x \notin writeSet[t]
      <4>1. o[x] = p
        BY <2>2, <3>1 DEF ForWrite
      <4> QED BY <4>1, SameQueueLemma
    <3>2. CASE x \in writeSet[t]
      <4>1. PICK a \in WriteAnswers(p.lock, t) : o[x].lock = a.lock
        BY <2>2, <3>2 DEF ForWrite
      <4> QED BY <2>3, <4>1, WriteOrderly
    <3> QED BY <3>1, <3>2
  <2> QED BY <2>1, <2>3, <2>4, OrderlyTwice
<1> QED BY <1>3, <1>4, <1>5 DEF Prepare, PreCommit, Decide, storeVars

(***************************************************************************)
(* A writer at the head of a queue is not overtaken, for any number of     *)
(* transactions and keys, although a prepare asks for a key twice, to read *)
(* and to write, and goes on after a refusal: lockForRead looks at         *)
(* isWriteNext before it adds a reader, and an unlocked lock goes to the   *)
(* head of its queue.                                                      *)
(***************************************************************************)
THEOREM NotOvertaken == StoreSpec => WriterNotOvertaken
<1>1. ASSUME StoreInv, [StoreNext]_storeVars, ~UNCHANGED vars, NEW x \in Key,
             NEW w, w = Head(locks[x].waitQ), locks[x].waitQ # <<>>,
             locks[x].waiters[w] = "write",
             ~(locks'[x].holders \subseteq locks[x].holders \cup {w}),
             NEW i \in 1..Len(locks'[x].waitQ)
      PROVE  locks'[x].waitQ[i] # w
  <2>1. PICK t \in Requester : Prepare(t) \/ PreCommit(t) \/ Decide(t)
    BY <1>1 DEF StoreNext, storeVars, vars
  <2>2. Orderly(locks[x], locks'[x], t)
    BY <1>1, <2>1, StepOrderly
  <2>3. locks[x].waitQ \in Seq(Requester)
    BY <1>1 DEF StoreInv, IInv, LockOK, Lock
  <2>4. w \in Requester /\ HeadWriter(locks[x], w)
    BY <1>1, <2>3 DEF HeadWriter
  <2>5. w # t
    BY <1>1, <2>2, ZenonT(30) DEF Orderly
  <2>6. ~Queued(locks'[x], w)
    BY <1>1, <2>2, <2>4, <2>5 DEF Orderly
  <2> QED BY <2>6, ZenonT(30) DEF Queued
<1>2. ASSUME StoreInv, [StoreNext]_storeVars
      PROVE  [\A x \in Key :
                LET l == locks[x]
                    w == Head(l.waitQ)
                IN
                (/\ l.waitQ # <<>> /\ l.waiters[w] = "write"
                 /\ ~(locks'[x].holders \subseteq l.holders \cup {w}))
                  => \A i \in 1..Len(locks'[x].waitQ) :
                       locks'[x].waitQ[i] # w]_vars
  BY <1>1, <1>2, ZenonT(30)
<1> QED BY <1>2, StoreInitLemma, StoreNextLemma, PTL
        DEF StoreSpec, WriterNotOvertaken
=============================================================================
