----------------------------- MODULE LockServer -----------------------------
(***************************************************************************)
(* The lock table of the two-phase-locking store                           *)
(* (store/common/backend/lockserver.cc): multi-reader, single-writer locks *)
(* with one FIFO queue of waiters per lock.  A call never blocks: it       *)
(* answers true or false, a refused requester is queued, and asks again.   *)
(* A waiter is forgotten LOCK_WAIT_TIMEOUT after it was queued; the table  *)
(* notices when somebody next asks for the lock.  Waiters are queued in    *)
(* the order of their times, so those that are too old are a prefix of the *)
(* queue: `old' below is its length, chosen freely at each call.           *)
(* The counters readers and writers feed debug output only and are left    *)
(* out.                                                                    *)
(***************************************************************************)
EXTENDS Naturals, Sequences, FiniteSets

CONSTANTS Key,          \* names of locks
          Requester     \* transaction ids

VARIABLES locks,        \* the table: one Lock structure per key
          granted       \* history: what callers were promised and still hold

vars == <<locks, granted>>

LockState == {"UNLOCKED", "LOCKED_FOR_READ", "LOCKED_FOR_WRITE",
              "LOCKED_FOR_READ_WRITE"}

Mode == {"read", "write"}

\* `waiters' maps a queued requester to the mode it waits for, and the
\* others, which the code's map does not contain, to "none".
Lock == [state   : LockState,
         holders : SUBSET Requester,
         waitQ   : Seq(Requester),
         waiters : [Requester -> Mode \cup {"none"}]]

NewLock == [state |-> "UNLOCKED", holders |-> {}, waitQ |-> <<>>,
            waiters |-> [r \in Requester |-> "none"]]

-----------------------------------------------------------------------------
(***************************************************************************)
(* The queue.                                                              *)
(***************************************************************************)
\* The pruning loop of tryAcquireLock and isWriteNext.
Prune(l, old) ==
  [l EXCEPT !.waitQ   = SubSeq(@, old + 1, Len(@)),
            !.waiters = [r \in Requester |->
                           IF \E i \in 1..old : l.waitQ[i] = r
                             THEN "none" ELSE @[r]]]

Pruned(l) == {Prune(l, old) : old \in 0..Len(l.waitQ)}

\* Mutant: a requester that waits already is queued again
waitForLockTwice(l, r, mode) ==
  [l EXCEPT !.waiters = [@ EXCEPT ![r] = mode], !.waitQ = Append(@, r)]

\* Mutant: requester and mode are stored in each other's place
waitForLockSwapped(l, r, mode) ==
  IF l.waiters[r] # "none" THEN l
  ELSE [l EXCEPT !.waiters = [@ EXCEPT ![r] = r], !.waitQ = Append(@, mode)]

waitForLock(l, r, mode) ==
  IF l.waiters[r] # "none" THEN l
  ELSE [l EXCEPT !.waiters = [@ EXCEPT ![r] = mode], !.waitQ = Append(@, r)]

\* Mutant: a waiting writer is not looked for
isWriteNextNever(l) == FALSE

\* Both are asked of a lock whose old waiters have been pruned.
isWriteNext(l) == l.waitQ # <<>> /\ l.waiters[Head(l.waitQ)] = "write"

isNext(l, r) == l.waitQ # <<>> => Head(l.waitQ) = r

\* tryAcquireLock when it answers true: the requester leaves the queue.
Dequeue(l, r) ==
  IF l.waitQ = <<>> THEN l
  ELSE [l EXCEPT !.waitQ = Tail(@), !.waiters = [@ EXCEPT ![r] = "none"]]

-----------------------------------------------------------------------------
(***************************************************************************)
(* The two lock calls: the answers requester r can get from a lock in      *)
(* state l, each with the state it leaves the lock in.                     *)
(***************************************************************************)
Granted(l) == [ok |-> TRUE, lock |-> l]
Refused(l, r, mode) == [ok |-> FALSE, lock |-> waitForLock(l, r, mode)]

\* lockForRead and lockForWrite of an unlocked lock, which becomes `state'.
TakeUnlocked(l, r, mode, state) ==
  {IF isNext(p, r)
     THEN Granted([Dequeue(p, r) EXCEPT !.state = state,
                                        !.holders = @ \cup {r}])
     ELSE Refused(p, r, mode) : p \in Pruned(l)}

ReadAnswers(l, r) ==
  CASE l.state = "UNLOCKED" -> TakeUnlocked(l, r, "read", "LOCKED_FOR_READ")
    [] l.state = "LOCKED_FOR_READ" /\ r \in l.holders -> {Granted(l)}
    [] l.state = "LOCKED_FOR_READ" /\ r \notin l.holders ->
         {IF isWriteNext(p) THEN Refused(p, r, "read")
          ELSE Granted([p EXCEPT !.holders = @ \cup {r}]) : p \in Pruned(l)}
    [] l.state \in {"LOCKED_FOR_WRITE", "LOCKED_FOR_READ_WRITE"} ->
         {IF r \in l.holders
            THEN Granted([l EXCEPT !.state = "LOCKED_FOR_READ_WRITE"])
            ELSE Refused(l, r, "read")}

\* Mutant: a reader upgrades among other readers
mayUpgradeShared(l, r) == r \in l.holders

mayUpgrade(l, r) == l.holders = {r}

WriteAnswers(l, r) ==
  CASE l.state = "UNLOCKED" -> TakeUnlocked(l, r, "write", "LOCKED_FOR_WRITE")
    [] l.state = "LOCKED_FOR_READ" ->
         {IF mayUpgrade(l, r)
            THEN Granted([l EXCEPT !.state = "LOCKED_FOR_READ_WRITE"])
            ELSE Refused(l, r, "write")}
    [] l.state \in {"LOCKED_FOR_WRITE", "LOCKED_FOR_READ_WRITE"} ->
         {IF r \in l.holders THEN Granted(l) ELSE Refused(l, r, "write")}

-----------------------------------------------------------------------------
(***************************************************************************)
(* The table.                                                              *)
(***************************************************************************)
Answer(x, r, mode, a) ==
  /\ locks' = [locks EXCEPT ![x] = a.lock]
  /\ granted' = [granted EXCEPT ![x] = IF a.ok THEN @ \cup {<<r, mode>>} ELSE @]

lockForRead(x, r) ==
  \E a \in ReadAnswers(locks[x], r) : Answer(x, r, "read", a)

lockForWrite(x, r) ==
  \E a \in WriteAnswers(locks[x], r) : Answer(x, r, "write", a)

\* The two release calls.  Releasing what is not held does nothing.
HeldForRead(l, r) ==
  r \in l.holders /\ l.state \in {"LOCKED_FOR_READ", "LOCKED_FOR_READ_WRITE"}

HeldForWrite(l, r) ==
  r \in l.holders /\ l.state \in {"LOCKED_FOR_WRITE", "LOCKED_FOR_READ_WRITE"}

\* Mutant: the first reader to leave unlocks the lock
AfterReadEarly(l, r) ==
  IF ~HeldForRead(l, r) THEN l
  ELSE [l EXCEPT !.holders = @ \ {r}, !.state = "UNLOCKED"]

AfterRead(l, r) ==
  IF ~HeldForRead(l, r) THEN l
  ELSE IF l.state = "LOCKED_FOR_READ_WRITE"
    THEN [l EXCEPT !.state = "LOCKED_FOR_WRITE"]
  ELSE [l EXCEPT !.holders = @ \ {r},
                 !.state = IF l.holders = {r} THEN "UNLOCKED" ELSE @]

AfterWrite(l, r) ==
  IF ~HeldForWrite(l, r) THEN l
  ELSE IF l.state = "LOCKED_FOR_READ_WRITE"
    THEN [l EXCEPT !.state = "LOCKED_FOR_READ"]
  ELSE [l EXCEPT !.holders = @ \ {r}, !.state = "UNLOCKED"]

releaseForRead(x, r) ==
  /\ HeldForRead(locks[x], r)
  /\ locks' = [locks EXCEPT ![x] = AfterRead(@, r)]
  /\ granted' = [granted EXCEPT ![x] = @ \ {<<r, "read">>}]

releaseForWrite(x, r) ==
  /\ HeldForWrite(locks[x], r)
  /\ locks' = [locks EXCEPT ![x] = AfterWrite(@, r)]
  /\ granted' = [granted EXCEPT ![x] = @ \ {<<r, "write">>}]

Init ==
  /\ locks = [x \in Key |-> NewLock]
  /\ granted = [x \in Key |-> {}]

Next ==
  \E x \in Key, r \in Requester :
    \/ lockForRead(x, r)
    \/ lockForWrite(x, r)
    \/ releaseForRead(x, r)
    \/ releaseForWrite(x, r)

Spec == Init /\ [][Next]_vars

-----------------------------------------------------------------------------
\* The table and the history are well formed.
TypeOK ==
  /\ locks \in [Key -> Lock]
  /\ granted \in [Key -> SUBSET (Requester \X Mode)]

(***************************************************************************)
(* "multi-reader, single-writer" (lockserver.cc:5), as the callers see it: *)
(* while one of them has been promised a lock for writing, nobody else has *)
(* been promised it at all, however the lock was upgraded, downgraded,     *)
(* queued for and handed over.                                             *)
(***************************************************************************)
Exclusion ==
  \A x \in Key : \A g, h \in granted[x] : g[2] = "write" => g[1] = h[1]

(***************************************************************************)
(* The state word and the holders of a lock record exactly what its        *)
(* callers were promised: one holder at most while it is locked for        *)
(* writing, none when it is unlocked (the assertions at                    *)
(* lockserver.cc:129,158,181,201,269,275).                                 *)
(***************************************************************************)
HoldersMatchGrants ==
  \A x \in Key :
    LET l == locks[x]
        g == granted[x]
    IN
    /\ l.state = "UNLOCKED" => l.holders = {} /\ g = {}
    /\ l.state = "LOCKED_FOR_READ"
         => l.holders # {} /\ g = l.holders \X {"read"}
    /\ l.state = "LOCKED_FOR_WRITE"
         => \E h \in Requester : l.holders = {h} /\ g = {<<h, "write">>}
    /\ l.state = "LOCKED_FOR_READ_WRITE"
         => \E h \in Requester : l.holders = {h} /\ g = {h} \X Mode

(***************************************************************************)
(* waitQ and waiters are two views of one queue: a requester is in waiters *)
(* exactly when it is in waitQ, and it is there once (the assertions of    *)
(* tryAcquireLock and isWriteNext, lockserver.cc:72,78,109,112).           *)
(***************************************************************************)
QueueConsistent ==
  \A x \in Key :
    LET l == locks[x] IN
    /\ \A r \in Requester : l.waiters[r] # "none"
                              <=> \E i \in 1..Len(l.waitQ) : l.waitQ[i] = r
    /\ \A i, j \in 1..Len(l.waitQ) : l.waitQ[i] = l.waitQ[j] => i = j

(***************************************************************************)
(* A writer at the head of the queue is overtaken by nobody: when another  *)
(* requester becomes a holder, that writer has waited too long and is no   *)
(* longer queued (isWriteNext and tryAcquireLock on the way of lockForRead *)
(* and lockForWrite).                                                      *)
(***************************************************************************)
WriterNotOvertaken ==
  [][\A x \in Key :
       LET l == locks[x]
           w == Head(l.waitQ)
       IN
       (/\ l.waitQ # <<>> /\ l.waiters[w] = "write"
        /\ ~(locks'[x].holders \subseteq l.holders \cup {w}))
         => \A i \in 1..Len(locks'[x].waitQ) : locks'[x].waitQ[i] # w]_vars
=============================================================================
