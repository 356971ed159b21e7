------------------------------ MODULE LockStore ------------------------------
(***************************************************************************)
(* The two-phase-locking store of a shard at its leader                    *)
(* (store/strongstore/lockstore.cc) over the lock table.  Reads take no    *)
(* lock: the server calls the Get that returns a dependency, and Prepare   *)
(* locks everything at once.  What a prepared transaction writes when it   *)
(* commits is the subject of VersionStore; here are the locks.             *)
(*                                                                         *)
(* The leader (replication/lr/replica.cc) prepares a transaction each time *)
(* a prepare request of it arrives and nothing is decided.  A decision, or *)
(* the announcement of a pre-commit, may arrive at any time; when nothing  *)
(* is pending (pendingTxns) it is ignored, and a prepare request that      *)
(* arrives after it prepares the transaction all the same.                 *)
(*                                                                         *)
(* Left out, because the branch cannot be taken: getLocks skips reads of   *)
(* keys that are not stored, and refuses reads older than the newest       *)
(* version; what was read is stored, and every timestamp is 0              *)
(* (CommitTimestamp in ParallelLeader).                                    *)
(***************************************************************************)
EXTENDS LockServer

CONSTANTS readSet, writeSet     \* per transaction: the keys of its sets

ASSUME LockStoreAssumption ==
  /\ readSet \in [Requester -> SUBSET Key]
  /\ writeSet \in [Requester -> SUBSET Key]

VARIABLES prepared,       \* transactions that hold their locks
          precommitted,   \* transactions pre-committed and not decided
          pending,        \* pendingTxns of the leader
          decided         \* committedTxns of the leader

storeVars == <<locks, granted, prepared, precommitted, pending, decided>>

-----------------------------------------------------------------------------
(***************************************************************************)
(* getLocks and dropLocks.                                                 *)
(***************************************************************************)
\* What can come of asking for key k: the lock afterwards, and the modes t
\* was granted.  A read lock is asked for first.
ForRead(k, t) ==
  IF k \notin readSet[t] THEN {[lock |-> locks[k], got |-> {}]}
  ELSE {[lock |-> a.lock, got |-> IF a.ok THEN {"read"} ELSE {}] :
          a \in ReadAnswers(locks[k], t)}

ForWrite(p, k, t) ==
  IF k \notin writeSet[t] THEN {p}
  ELSE {[lock |-> a.lock, got |-> IF a.ok THEN p.got \cup {"write"} ELSE p.got] :
          a \in WriteAnswers(p.lock, t)}

Outcomes(k, t) == UNION {ForWrite(p, k, t) : p \in ForRead(k, t)}

Wanted(k, t) == (IF k \in readSet[t] THEN {"read"} ELSE {})
                  \cup (IF k \in writeSet[t] THEN {"write"} ELSE {})

\* Mutant: the answer for a read lock is not looked at
AllLockedWrites(o, t) == \A k \in writeSet[t] : "write" \in o[k].got

AllLocked(o, t) == \A k \in Key : o[k].got = Wanted(k, t)

\* getLocks asks for every lock, and goes on when one is refused.  The locks
\* granted before and after that stay granted.
getLocks(t, o) ==
  /\ \A k \in Key : o[k] \in Outcomes(k, t)
  /\ locks' = [k \in Key |-> o[k].lock]
  /\ granted' = [k \in Key |-> granted[k] \cup ({t} \X o[k].got)]

\* The lock on k after dropLocks.
Dropped(k, t) ==
  LET l == IF k \in writeSet[t] THEN AfterWrite(locks[k], t) ELSE locks[k]
  IN  IF k \in readSet[t] THEN AfterRead(l, t) ELSE l

\* Mutant: the read locks are kept
dropLocksOfWrites(t) ==
  /\ locks' = [k \in Key |->
                 IF k \in writeSet[t] THEN AfterWrite(locks[k], t) ELSE locks[k]]
  /\ granted' = [k \in Key |-> granted[k] \ ({t} \X (Wanted(k, t) \ {"read"}))]

dropLocks(t) ==
  /\ locks' = [k \in Key |-> Dropped(k, t)]
  /\ granted' = [k \in Key |-> granted[k] \ ({t} \X Wanted(k, t))]

-----------------------------------------------------------------------------
(***************************************************************************)
(* The store's operations, as the leader calls them.                       *)
(***************************************************************************)
\* A transaction that is prepared already is prepared.
Prepare(t) ==
  /\ t \notin decided /\ t \notin precommitted
  /\ \/ /\ t \in prepared
        /\ UNCHANGED <<locks, granted, prepared, pending>>
     \/ /\ t \notin prepared
        /\ \E o \in [Key -> UNION {Outcomes(k, t) : k \in Key}] :
             /\ getLocks(t, o)
             /\ \/ /\ AllLocked(o, t)
                   /\ prepared' = prepared \cup {t}
                   /\ pending' = pending \cup {t}
                \/ /\ ~AllLocked(o, t)
                   /\ UNCHANGED <<prepared, pending>>
  /\ UNCHANGED <<precommitted, decided>>

\* Pre-committing once more finds no transaction, and drops no lock.
PreCommit(t) ==
  \/ t \notin pending /\ UNCHANGED storeVars
  \/ /\ t \in pending
     /\ \/ t \in prepared /\ dropLocks(t)
        \/ t \notin prepared /\ UNCHANGED <<locks, granted>>
     /\ prepared' = prepared \ {t}
     /\ precommitted' = precommitted \cup {t}
     /\ UNCHANGED <<pending, decided>>

\* Commit and Abort: a pre-committed transaction has no locks left to drop.
Decide(t) ==
  \/ t \notin pending /\ UNCHANGED storeVars
  \/ /\ t \in pending
     /\ \/ /\ t \in precommitted
           /\ precommitted' = precommitted \ {t}
           /\ UNCHANGED <<locks, granted, prepared>>
        \/ /\ t \notin precommitted
           /\ dropLocks(t)
           /\ prepared' = prepared \ {t}
           /\ UNCHANGED precommitted
     /\ pending' = pending \ {t}
     /\ decided' = decided \cup {t}

StoreInit ==
  /\ Init
  /\ prepared = {} /\ precommitted = {} /\ pending = {} /\ decided = {}

StoreNext ==
  \E t \in Requester : Prepare(t) \/ PreCommit(t) \/ Decide(t)

StoreSpec == StoreInit /\ [][StoreNext]_storeVars

-----------------------------------------------------------------------------
\* Type correctness of the table and of the leader's sets.
StoreTypeOK ==
  /\ TypeOK
  /\ prepared \subseteq pending /\ precommitted \subseteq pending
  /\ pending \subseteq Requester /\ decided \subseteq Requester

\* Strictness of the locking: no two transactions that conflict are prepared
\* together, however their requests were refused, queued, repeated and handed
\* on.
LockedConflictFree ==
  \A t, u \in prepared :
    t # u => writeSet[t] \cap (readSet[u] \cup writeSet[u]) = {}

\* Locks are given back: a transaction that was prepared keeps none once it is
\* pre-committed or decided, whatever was refused to it before and however
\* often it is pre-committed (dropLocks against getLocks).
ReleasedWhenDecided ==
  [][\A t \in Requester :
       (t \in prepared /\ t \notin prepared')
         => \A k \in Key, m \in Mode : <<t, m>> \notin granted'[k]]_storeVars
=============================================================================
