------------------------------ MODULE LRReplica -----------------------------
(***************************************************************************)
(* The replicas of the shards (replication/lr/replica.cc) in the modes     *)
(* FAST and PARALLEL, over the optimistic store                            *)
(* (store/strongstore/occstore.cc).  The leader of a shard validates a     *)
(* transaction, logs it and sends the entry to all replicas; it answers    *)
(* the client when a quorum has the entry (FAST), or leaves it to the      *)
(* coordinators to collect the acknowledgements (PARALLEL).                *)
(*                                                                         *)
(* Whether a transaction passes validation depends on transactions that    *)
(* are not modelled: both answers are possible, unless it is prepared      *)
(* already.  No transaction reads pre-committed data here, so has_precommit*)
(* is false, inDependency is empty and no transaction has out-edges.       *)
(* Timestamps do not reach the properties and are left out.  clientList    *)
(* has an entry whenever pendingTxns has one.                              *)
(***************************************************************************)
EXTENDS Network

CONSTANTS f,         \* failures to tolerate, from the configuration file
          MaxLsn,    \* bound: incarnations of a transaction in a log
          Conflicts  \* bound: the shards where validation may fail

ASSUME ReplicaAssumption ==
  f \in Nat /\ MaxLsn \in Nat /\ MaxLsn > 0 /\ Conflicts \subseteq Shard

VARIABLES pendingTxns,     \* per shard, at its leader: PendingTransaction
          committedTxns,   \* per shard, at its leader: the state answered
          active,          \* per shard and replica: activeTxns
          log,             \* per shard and replica: entries <<t, lsn>>
          store            \* per shard, replica and transaction: StoreState

replicaVars == <<pendingTxns, committedTxns, active, log, store>>

PendingTransaction ==
  [present        : BOOLEAN,
   is_participant : BOOLEAN,
   timer          : BOOLEAN,
   lsn            : 0..(MaxLsn - 1),
   quorum         : SUBSET Replica,
   consensus      : BOOLEAN]

NoTransaction ==
  [present |-> FALSE, is_participant |-> TRUE, timer |-> FALSE, lsn |-> 0,
   quorum |-> {}, consensus |-> FALSE]

\* Mutant: as many acknowledgements as failures
QuorumSizeOff == f

QuorumSize == f + 1

-----------------------------------------------------------------------------
(***************************************************************************)
(* The store, as it stands to one transaction.  precommitted is "empty"    *)
(* when the map holds a transaction without its writes.                    *)
(***************************************************************************)
StoreState ==
  [prepared     : BOOLEAN,
   precommitted : {"none", "writes", "empty"},
   applied      : BOOLEAN]

NewStore == [prepared |-> FALSE, precommitted |-> "none", applied |-> FALSE]

\* Mutant: a prepared transaction is validated again, against itself too
MayFailOften(st) == TRUE

\* A transaction that is prepared already is not validated again.
MayFail(st) == ~st.prepared

StorePrepare(st) == [st EXCEPT !.prepared = TRUE]

\* prepared[id] makes an empty transaction when there is none.
StorePreCommit(st) ==
  [st EXCEPT !.prepared = FALSE,
             !.precommitted = IF st.prepared THEN "writes" ELSE "empty"]

StoreCommit(st) ==
  IF st.precommitted # "none"
    THEN [st EXCEPT !.precommitted = "none",
                    !.applied = @ \/ st.precommitted = "writes"]
    ELSE [st EXCEPT !.prepared = FALSE, !.applied = @ \/ st.prepared]

StoreAbort(st) ==
  IF st.precommitted # "none" THEN [st EXCEPT !.precommitted = "none"]
  ELSE [st EXCEPT !.prepared = FALSE]

\* What a decision does to the store.
applyToStore(st, state) ==
  IF state = "COMMIT" THEN StoreCommit(st) ELSE StoreAbort(st)

SetStore(s, r, t, st) ==
  store' = [store EXCEPT ![s][r][t] = st]

SetPending(s, t, req) ==
  pendingTxns' = [pendingTxns EXCEPT ![s][t] = req]

\* Mutant: the state of the log entry is kept, not the one decided
SetCommittedAsLogged(s, t, state) ==
  committedTxns' = [committedTxns EXCEPT ![s][t] = "PREPAREOK"]

SetCommitted(s, t, state) ==
  committedTxns' = [committedTxns EXCEPT ![s][t] = state]

-----------------------------------------------------------------------------
(***************************************************************************)
(* Preparing, at the leader of shard s.                                    *)
(***************************************************************************)
\* The log numbers its entries as they come (last++).  Entries of other
\* transactions take numbers in between; those of t are numbered without gaps.
NextLsn(s, t) ==
  Cardinality({l \in 0..MaxLsn : <<t, l>> \in log[s][Leader(s)]})

\* A leader that cannot send forgets the request, timer and all; the entry and
\* the store stay as they are.
SendFailed(s, t) == s \in Unsendable /\ SetPending(s, t, NoTransaction)

\* InvokeReplicateTxn, ReplicateTxn.  A request that has its timer is sent
\* again as it is; the entry a repeated prepare has logged for it is never
\* looked at.  The sends to some of the replicas may have succeeded before the
\* one that fails.
InvokeReplicateTxn(s, t) ==
  LET req == pendingTxns[s][t]
      r == Leader(s)
      lsn == NextLsn(s, t)
  IN  \/ /\ req.timer
         /\ Send({ReplicateTransaction(t, s, req.lsn)})
         /\ UNCHANGED pendingTxns \/ SendFailed(s, t)
         /\ UNCHANGED log
      \/ /\ ~req.timer
         /\ lsn < MaxLsn
         /\ \/ SetPending(s, t, [req EXCEPT !.present = TRUE, !.timer = TRUE,
                                            !.lsn = lsn])
            \/ SendFailed(s, t)
         /\ log' = [log EXCEPT ![s][r] = @ \cup {<<t, lsn>>}]
         /\ Send({ReplicateTransaction(t, s, lsn)})

\* The timer's resend.  One that succeeds changes nothing.  In FAST another
\* timer, whose send may fail without harm, takes its place at the consensus.
ResendReplicateTxn(s, t) ==
  LET req == pendingTxns[s][t]
  IN  /\ req.timer
      /\ tpcMode = "FAST" => ~req.consensus
      /\ SendFailed(s, t)
      /\ UNCHANGED <<committedTxns, active, log, store, msgs>>

HandlePrepareTxn(s, m) ==
  LET t == m.tid
      req == pendingTxns[s][t]
      r == Leader(s)
      st == store[s][r][t]
      unknown == committedTxns[s][t] = "none" /\ ~req.consensus
  IN  /\ m.type = "PrepareTransaction"
      /\ m.shard = s
      /\ \/ /\ committedTxns[s][t] # "none"
            /\ Send({PrepareReply(t, s, committedTxns[s][t])})
            /\ UNCHANGED replicaVars
         \/ /\ committedTxns[s][t] = "none" /\ req.consensus
            /\ Send({PrepareReply(t, s, "PREPAREOK")})
            /\ UNCHANGED replicaVars
         \/ /\ unknown /\ MayFail(st)        \* fails validation
            /\ s \in Conflicts
            /\ SetStore(s, r, t, StoreAbort(st))
            /\ Send({PrepareReply(t, s, "ABORT")})
            /\ UNCHANGED <<pendingTxns, committedTxns, active, log>>
         \/ /\ unknown                        \* passes validation
            /\ SetStore(s, r, t, StorePrepare(st))
            /\ active' = [active EXCEPT ![s][r] = @ \cup {t}]
            /\ InvokeReplicateTxn(s, t)
            /\ UNCHANGED committedTxns

-----------------------------------------------------------------------------
(***************************************************************************)
(* Replication.                                                            *)
(***************************************************************************)
\* At replica r, the leader included.  The entry is looked up by its lsn.
HandleReplicateTransaction(s, r, m) ==
  LET t == m.tid
      e == <<t, m.lsn>>
  IN  /\ m.type = "ReplicateTransaction"
      /\ m.shard = s
      /\ \/ /\ e \in log[s][r]
            /\ UNCHANGED <<log, active, store>>
         \/ /\ e \notin log[s][r]
            /\ log' = [log EXCEPT ![s][r] = @ \cup {e}]
            /\ active' = [active EXCEPT ![s][r] = @ \cup {t}]
            /\ SetStore(s, r, t, StorePrepare(store[s][r][t]))
      /\ Send({ReplicateTransactionReply(t, s, r)}
               \cup (IF tpcMode = "PARALLEL"
                       THEN {ReplyAndVote(t, s, r, FALSE)} ELSE {}))
      /\ UNCHANGED <<pendingTxns, committedTxns>>

\* At the leader.  A reply is counted for the transaction, whatever the lsn
\* it answers; a reply that completes the quorum of a transaction the leader
\* does not hold dereferences a null pointer and is not modelled further.  A
\* leader that cannot send its answer forgets the transaction.
HandleReplicateTransactionReply(s, m) ==
  LET t == m.tid
      req == pendingTxns[s][t]
      quorum == req.quorum \cup {m.replica}
      reached == Cardinality(quorum) >= QuorumSize
  IN  /\ m.type = "ReplicateTransactionReply"
      /\ m.shard = s
      /\ req.present /\ ~req.consensus
      /\ reached => t \in active[s][Leader(s)]
      /\ \/ /\ SetPending(s, t, [req EXCEPT !.quorum = quorum,
                                            !.consensus = reached])
            /\ Send(IF reached /\ tpcMode = "FAST"
                      THEN {PrepareReply(t, s, "PREPAREOK")} ELSE {})
            /\ UNCHANGED active
         \/ /\ reached /\ tpcMode = "FAST"
            /\ SendFailed(s, t)
            /\ active' = [active EXCEPT ![s][Leader(s)] = @ \ {t}]
            /\ UNCHANGED msgs
      /\ UNCHANGED <<committedTxns, log, store>>

-----------------------------------------------------------------------------
(***************************************************************************)
(* Deciding.                                                               *)
(***************************************************************************)
\* The leader tells all replicas; the one to itself is dropped.
notifyCommitToReplica(t, s, state) == {ReplicateCommit(t, s, state)}

\* HandleCommit: what the leader does with a decision.  Aborting goes through
\* the store twice (applyToStore, CascadeAbort).
DoCommit(s, t, state, M) ==
  LET req == pendingTxns[s][t]
      r == Leader(s)
      st == applyToStore(store[s][r][t], state)
  IN  /\ req.present
      /\ SetPending(s, t, NoTransaction)
      /\ \/ /\ ~req.is_participant
            /\ Send(M)
            /\ UNCHANGED <<committedTxns, active, log, store>>
         \/ /\ req.is_participant
            /\ Send(M \cup notifyCommitToReplica(t, s, state))
            /\ SetStore(s, r, t, IF state = "ABORT" THEN StoreAbort(st) ELSE st)
            /\ active' = [active EXCEPT ![s][r] = @ \ {t}]
            /\ SetCommitted(s, t, state)
            /\ UNCHANGED log

\* The client's decision.
HandleCommit(s, m) ==
  /\ m.type = "Commit"
  /\ m.shard = s
  /\ DoCommit(s, m.tid, m.state, {})

\* At a follower.  A decision about a transaction it does not hold is lost.
HandleReplicateCommit(s, r, m) ==
  LET t == m.tid
  IN  /\ m.type = "ReplicateCommit"
      /\ m.shard = s
      /\ r # Leader(s)
      /\ t \in active[s][r]
      /\ SetStore(s, r, t, applyToStore(store[s][r][t], m.state))
      /\ active' = [active EXCEPT ![s][r] = @ \ {t}]
      /\ UNCHANGED <<pendingTxns, committedTxns, log, msgs>>

-----------------------------------------------------------------------------
(***************************************************************************)
(* Parallel mode: the coordinators' notifications, at the leader.          *)
(***************************************************************************)
\* The pre-commit decision.  The transaction is answered as committed from
\* here on, though it is not.
HandleDecisionFromCoordinatorReplica(s, m) ==
  LET t == m.tid
      r == Leader(s)
  IN  /\ m.type = "NotifyDecision"
      /\ m.shard = s
      /\ pendingTxns[s][t].present
      /\ SetStore(s, r, t, StorePreCommit(store[s][r][t]))
      /\ SetCommitted(s, t, "COMMIT")
      /\ UNCHANGED <<pendingTxns, active, log, msgs>>

\* The commit decision: the client is told, then the transaction committed.
HandleReplicateResultFromCoordinatorReplica(s, m) ==
  /\ m.type = "NotifyReplicateResult"
  /\ m.shard = s
  /\ m.replica = Leader(s)
  /\ DoCommit(s, m.tid, "COMMIT", {ParallelModeCommitReply(m.tid)})

\* Meant for a primary shard that is no participant; one that is, and has not
\* got the transaction yet, takes itself for such a shard.
HandleParallelModeCommit(s, m) ==
  LET t == m.tid
  IN  /\ m.type = "ParallelModeCommit"
      /\ s = primary[t]
      /\ ~pendingTxns[s][t].present
      /\ SetPending(s, t, [NoTransaction EXCEPT !.present = TRUE,
                                                !.is_participant = FALSE])
      /\ Send({RequestResult(t)})
      /\ UNCHANGED <<committedTxns, active, log, store>>

-----------------------------------------------------------------------------
ReplicaInit ==
  /\ pendingTxns = [s \in Shard |-> [t \in Txn |-> NoTransaction]]
  /\ committedTxns = [s \in Shard |-> [t \in Txn |-> "none"]]
  /\ active = [s \in Shard |-> [r \in Replica |-> {}]]
  /\ log = [s \in Shard |-> [r \in Replica |-> {}]]
  /\ store = [s \in Shard |-> [r \in Replica |-> [t \in Txn |-> NewStore]]]

\* The handlers both modes have.
ReplicaNext ==
  \E s \in Shard, m \in msgs :
    \/ HandlePrepareTxn(s, m)
    \/ HandleReplicateTransactionReply(s, m)
    \/ HandleCommit(s, m)
    \/ \E r \in Replica : \/ HandleReplicateTransaction(s, r, m)
                          \/ HandleReplicateCommit(s, r, m)

\* Its timers.
ReplicaTimers == \E s \in Shard, t \in Txn : ResendReplicateTxn(s, t)

ParallelReplicaNext ==
  \E s \in Shard, m \in msgs :
    \/ HandleDecisionFromCoordinatorReplica(s, m)
    \/ HandleReplicateResultFromCoordinatorReplica(s, m)
    \/ HandleParallelModeCommit(s, m)

ReplicaTypeOK ==
  /\ pendingTxns \in [Shard -> [Txn -> PendingTransaction]]
  /\ committedTxns \in [Shard -> [Txn -> {"none", "COMMIT", "ABORT"}]]
  /\ active \in [Shard -> [Replica -> SUBSET Txn]]
  /\ log \in [Shard -> [Replica -> SUBSET (Txn \X (0..(MaxLsn - 1)))]]
  /\ store \in [Shard -> [Replica -> [Txn -> StoreState]]]
=============================================================================
